---- MODULE Spec2Model ----
(***************************************************************************)
(* Model of the T-730 playlist bot: the retry executor                     *)
(* (bot/main.py _call_with_retry), the per-user cooldown map and the       *)
(* /addradio slash command handler with its messaging and catalog          *)
(* collaborators.                                                          *)
(***************************************************************************)
EXTENDS Integers, Sequences, FiniteSets, TLC

----------------------------------------------------------------------------
(* Bounds of the model *)

\* number of command invocations / retry executions that exist in a behaviour
NumTasks == 2
\* the clock runs over 0..MaxTime
MaxTime == 3
\* configured cooldown window (ADDRADIO_COOLDOWN_SECONDS), in clock units
ADDRADIO_COOLDOWN_SECONDS == 2
\* number of playlist items the API returns per page (maxResults)
MaxResults == 1

Tasks == 1..NumTasks
Users == {"u1", "u2"}
VideoIds == {"a", "b"}

----------------------------------------------------------------------------
(* Program constants: bot/main.py lines 27-35 and 216 *)

_FAST_RETRY_DELAY_SECONDS == 5
_FAST_RETRY_ATTEMPTS == 10
_SLOW_RETRY_DELAYS == <<60, 300, 600>>
MAX_VIDEO_DURATION_SECONDS == 600
_DEFAULT_ADDRADIO_COOLDOWN_SECONDS == 30

Mutant_RETRY_WAIT_SECONDS ==
    [i \in 1.._FAST_RETRY_ATTEMPTS |-> _FAST_RETRY_DELAY_SECONDS] \o _SLOW_RETRY_DELAYS

_RETRY_WAIT_SECONDS ==
    <<0>> \o [i \in 1.._FAST_RETRY_ATTEMPTS |-> _FAST_RETRY_DELAY_SECONDS]
          \o _SLOW_RETRY_DELAYS

_NON_RETRYABLE_EXCEPTIONS == {"CredentialsExpiredError"}

----------------------------------------------------------------------------
VARIABLES
    now,              \* time.time(), in clock units
    _user_cooldowns,  \* dict user id -> timestamp of the last mark
    playlist,         \* the remote playlist: sequence of video ids
    task,             \* one record per /addradio invocation
    retry,            \* one record per _call_with_retry execution (its locals)
    funcLog,          \* per execution: the outcomes the wrapped function produced
    cooldown,         \* a cooldown tracker on its own: window, timestamps, lock
    op,               \* one record per caller of the tracker: its call in progress
    unit              \* one record per caller of a function observed on its own

vars == <<now, _user_cooldowns, playlist, task, retry, funcLog, cooldown, op, unit>>
trackerVars == <<cooldown, op>>
handlerVars == <<now, _user_cooldowns, playlist, task>>

----------------------------------------------------------------------------
(* _call_with_retry *)

NoExc == [type |-> "None", at |-> 0]

\* locals of an execution that has not started
RetryIdle ==
    [status |-> "idle", func |-> "none", attempt |-> 0, sleeps |-> <<>>,
     last_exc |-> NoExc, raised |-> NoExc, value |-> -1]

\* locals at entry of _call_with_retry(func, ...): lines 50-52
RetryEntry(func) ==
    [status |-> "running", func |-> func, attempt |-> 0, sleeps |-> <<>>,
     last_exc |-> NoExc, raised |-> NoExc, value |-> -1]

\* an outcome of one call of the wrapped function: a returned value (an
\* integer: a bool True/False is 1/0, metadata is its duration_seconds) or a
\* raised exception
Returns(v) == [exc |-> "None", value |-> v]
Raises(e) == [exc |-> e, value |-> -1]

MutantRetryNoShortCircuit(r, o, nonRetryable) ==
    LET attempt == r.attempt + 1
        wait == _RETRY_WAIT_SECONDS[attempt]
        slept == IF attempt > 1 /\ wait # 0 THEN Append(r.sleeps, wait) ELSE r.sleeps
        exc == [type |-> o.exc, at |-> attempt]
    IN  IF o.exc = "None"
        THEN [r EXCEPT !.attempt = attempt, !.sleeps = slept,
                       !.status = "returned", !.value = o.value]
        ELSE IF attempt = Len(_RETRY_WAIT_SECONDS)
             THEN [r EXCEPT !.attempt = attempt, !.sleeps = slept, !.last_exc = exc,
                            !.status = "raised", !.raised = exc]
             ELSE [r EXCEPT !.attempt = attempt, !.sleeps = slept, !.last_exc = exc]

MutantRetrySleepAfterSuccess(r, o, nonRetryable) ==
    LET attempt == r.attempt + 1
        wait == _RETRY_WAIT_SECONDS[attempt]
        slept == IF attempt > 1 /\ wait # 0 THEN Append(r.sleeps, wait) ELSE r.sleeps
        exc == [type |-> o.exc, at |-> attempt]
    IN  IF o.exc = "None"
        THEN [r EXCEPT !.attempt = attempt,
                       !.sleeps = IF attempt < Len(_RETRY_WAIT_SECONDS)
                                  THEN Append(slept, _RETRY_WAIT_SECONDS[attempt + 1])
                                  ELSE slept,
                       !.status = "returned", !.value = o.value]
        ELSE IF o.exc \in nonRetryable
        THEN [r EXCEPT !.attempt = attempt, !.sleeps = slept,
                       !.status = "raised", !.raised = exc]
        ELSE IF attempt = Len(_RETRY_WAIT_SECONDS)
             THEN [r EXCEPT !.attempt = attempt, !.sleeps = slept, !.last_exc = exc,
                            !.status = "raised", !.raised = exc]
             ELSE [r EXCEPT !.attempt = attempt, !.sleeps = slept, !.last_exc = exc]

MutantRetryNeverGivesUp(r, o, nonRetryable) ==
    LET attempt == r.attempt + 1
        wait == _RETRY_WAIT_SECONDS[attempt]
        slept == IF attempt > 1 /\ wait # 0 THEN Append(r.sleeps, wait) ELSE r.sleeps
        exc == [type |-> o.exc, at |-> attempt]
    IN  IF o.exc = "None"
        THEN [r EXCEPT !.attempt = attempt, !.sleeps = slept,
                       !.status = "returned", !.value = o.value]
        ELSE IF o.exc \in nonRetryable
        THEN [r EXCEPT !.attempt = attempt, !.sleeps = slept,
                       !.status = "raised", !.raised = exc]
        ELSE IF attempt = Len(_RETRY_WAIT_SECONDS)
             THEN [r EXCEPT !.attempt = 0, !.sleeps = <<>>, !.last_exc = exc]
             ELSE [r EXCEPT !.attempt = attempt, !.sleeps = slept, !.last_exc = exc]

\* One iteration of the for loop of lines 54-79, and lines 81-82 when the loop
\* ends: the sleep before the attempt, the call of func (whose outcome is o),
\* and the three ways the try statement ends.
RetryIteration(r, o, nonRetryable) ==
    LET attempt == r.attempt + 1
        wait == _RETRY_WAIT_SECONDS[attempt]
        slept == IF attempt > 1 /\ wait # 0 THEN Append(r.sleeps, wait) ELSE r.sleeps
        exc == [type |-> o.exc, at |-> attempt]
    IN  IF o.exc = "None"
        THEN [r EXCEPT !.attempt = attempt, !.sleeps = slept,
                       !.status = "returned", !.value = o.value]
        ELSE IF o.exc \in nonRetryable
        THEN [r EXCEPT !.attempt = attempt, !.sleeps = slept,
                       !.status = "raised", !.raised = exc]
        ELSE IF attempt = Len(_RETRY_WAIT_SECONDS)
             THEN [r EXCEPT !.attempt = attempt, !.sleeps = slept, !.last_exc = exc,
                            !.status = "raised", !.raised = exc]
             ELSE [r EXCEPT !.attempt = attempt, !.sleeps = slept, !.last_exc = exc]

_call_with_retry(r, o) == RetryIteration(r, o, _NON_RETRYABLE_EXCEPTIONS)

----------------------------------------------------------------------------
(* Cooldown map: bot/main.py lines 231-232 and 340-363.  The lock is held    *)
(* only over code that does not await, so each function is one atomic step. *)

Mutant_get_cooldown_remaining(cooldowns, user_id, current) == 0

MutantRemainingOffByOne(cooldowns, user_id, current) ==
    IF ADDRADIO_COOLDOWN_SECONDS <= 0 THEN 0
    ELSE IF user_id \notin DOMAIN cooldowns THEN 0
    ELSE LET remaining == ADDRADIO_COOLDOWN_SECONDS - 1 - (current - cooldowns[user_id])
         IN  IF remaining > 0 THEN remaining ELSE 0

_get_cooldown_remaining(cooldowns, user_id, current) ==
    IF ADDRADIO_COOLDOWN_SECONDS <= 0 THEN 0
    ELSE IF user_id \notin DOMAIN cooldowns THEN 0
    ELSE LET remaining == ADDRADIO_COOLDOWN_SECONDS - (current - cooldowns[user_id])
         IN  IF remaining > 0 THEN remaining ELSE 0

Mutant_mark_cooldown(cooldowns, user_id, current) == cooldowns

_mark_cooldown(cooldowns, user_id, current) ==
    IF ADDRADIO_COOLDOWN_SECONDS <= 0 THEN cooldowns
    ELSE [u \in DOMAIN cooldowns \cup {user_id} |->
             IF u = user_id THEN current ELSE cooldowns[u]]

----------------------------------------------------------------------------
(* The cooldown tracker on its own: the class CooldownTracker of             *)
(* bot/cooldown.py, or the module-level functions and configuration of      *)
(* bot/main.py (lines 219-232 and 340-363), for any configured window.      *)

\* the value of _int_from_env("ADDRADIO_COOLDOWN_SECONDS"): None or an integer
Unset == [set |-> FALSE, value |-> 0]
Configured(v) == [set |-> TRUE, value |-> v]

\* bot/main.py lines 219-229
ConfiguredCooldownSeconds(_configured_cooldown) ==
    IF ~_configured_cooldown.set THEN _DEFAULT_ADDRADIO_COOLDOWN_SECONDS
    ELSE IF _configured_cooldown.value < 0 THEN 0
    ELSE _configured_cooldown.value

\* CooldownTracker.__init__: max(0, cooldown_seconds)
ClampedCooldownSeconds(cooldown_seconds) ==
    IF cooldown_seconds > 0 THEN cooldown_seconds ELSE 0

\* CooldownTracker.enabled; in bot/main.py the negation of the test
\* ADDRADIO_COOLDOWN_SECONDS <= 0
enabled(self) == self.seconds > 0

MutantTrackerRemainingNoClamp(self, user_id, current) ==
    IF ~enabled(self) THEN 0
    ELSE IF user_id \notin DOMAIN self.timestamps THEN 0
    ELSE self.seconds - (current - self.timestamps[user_id])

\* CooldownTracker.remaining (cooldown.py lines 23-35) and
\* _get_cooldown_remaining for a window of self.seconds
TrackerRemaining(self, user_id, current) ==
    IF ~enabled(self) THEN 0
    ELSE IF user_id \notin DOMAIN self.timestamps THEN 0
    ELSE LET remaining == self.seconds - (current - self.timestamps[user_id])
         IN  IF remaining > 0 THEN remaining ELSE 0

MutantTrackerMarkForgetsOthers(self, user_id, current) ==
    IF ~enabled(self) THEN self
    ELSE [self EXCEPT !.timestamps = [u \in {user_id} |-> current]]

MutantTrackerMarkWhenDisabled(self, user_id, current) ==
    [self EXCEPT !.timestamps =
        [u \in DOMAIN self.timestamps \cup {user_id} |->
            IF u = user_id THEN current ELSE self.timestamps[u]]]

\* CooldownTracker.mark (cooldown.py lines 37-45) and _mark_cooldown for a
\* window of self.seconds
TrackerMark(self, user_id, current) ==
    IF ~enabled(self) THEN self
    ELSE [self EXCEPT !.timestamps =
             [u \in DOMAIN self.timestamps \cup {user_id} |->
                 IF u = user_id THEN current ELSE self.timestamps[u]]]

\* no tracker under observation; arg: the window as configured or given to the
\* constructor; lock: 0 when free, else the task holding it
IdleTracker ==
    [impl |-> "none", arg |-> Unset, seconds |-> 0, timestamps |-> <<>>, lock |-> 0]

\* a caller that is not inside remaining or mark; last: the timestamp the call
\* read (-1: none), value: what the call returned
IdleOp ==
    [pc |-> "idle", kind |-> "none", user |-> "none", current |-> 0,
     last |-> -1, value |-> 0]

\* a caller that has not called the function under observation
NoCall == [fn |-> "none", status |-> "idle"]

----------------------------------------------------------------------------
(* Collaborators of the handler *)

\* outcomes of interaction.response.send_message / defer and of
\* interaction.followup.send: success, the 10062 Unknown interaction error,
\* or any other exception
InteractionOutcomes(faults) ==
    IF faults THEN {"ok", "unknown_interaction", "error"} ELSE {"ok"}
\* outcomes of channel.send and of interaction.edit_original_response
SendOutcomes(faults) == IF faults THEN {"ok", "error"} ELSE {"ok"}
\* _resolve_channel_for_interaction: a channel (TRUE) or None (FALSE)
ChannelOutcomes(faults) == IF faults THEN BOOLEAN ELSE {TRUE}

_is_unknown_interaction_error(exc) == exc = "unknown_interaction"

\* canonical_video_ids_from_text returns an ordered list without repetitions
Batches ==
    {<<>>} \cup {<<v>> : v \in VideoIds}
           \cup {<<v, w>> : <<v, w>> \in {p \in VideoIds \X VideoIds : p[1] # p[2]}}

Durations ==
    {MAX_VIDEO_DURATION_SECONDS - 1, MAX_VIDEO_DURATION_SECONDS,
     MAX_VIDEO_DURATION_SECONDS + 1}

Range(seq) == {seq[i] : i \in 1..Len(seq)}

\* playlistItems().list: the page that starts after `token` items (token 0:
\* no pageToken) and the nextPageToken of its response (0: none)
PageItems(pl, token) ==
    SubSeq(pl, token + 1, IF token + MaxResults < Len(pl)
                          THEN token + MaxResults ELSE Len(pl))
NextPageToken(pl, token) ==
    IF token + MaxResults < Len(pl) THEN token + MaxResults ELSE 0

MutantScanFirstPageOnly(vid, pl, page_token) ==
    IF vid \in Range(PageItems(pl, page_token)) THEN 1 ELSE 0

\* the while loop of video_exists, lines 151-182 (1: True, 0: False)
RECURSIVE ScanFrom(_, _, _)
ScanFrom(vid, pl, page_token) ==
    IF vid \in Range(PageItems(pl, page_token)) THEN 1
    ELSE IF NextPageToken(pl, page_token) = 0 THEN 0
    ELSE ScanFrom(vid, pl, NextPageToken(pl, page_token))

video_exists(video_id, pl) == ScanFrom(video_id, pl, 0)

\* what one call of a catalog function can do: bot/youtube/__init__.py
FuncOutcomes(func, vid, pl, faults) ==
    (CASE func = "video_exists" -> {Returns(video_exists(vid, pl))}
       [] func = "get_video_metadata" -> {Returns(d) : d \in Durations}
       [] OTHER -> {Returns(0)})
    \cup (IF faults
          THEN {Raises("RuntimeError"), Raises("CredentialsExpiredError")}
          ELSE {})

----------------------------------------------------------------------------
(* _safe_followup_send and _announce_added, as functions of the outcomes of *)
(* the sends they make                                                      *)

Outcome(raised, delivered) == [raised |-> raised, delivered |-> delivered]

\* is_done: interaction.response.is_done(); eo: edit_original_response;
\* so: response.send_message (not done) or followup.send (done);
\* ch: the channel fallback resolves a channel; co: its send
_safe_followup_send(is_done, eo, so, ch, co) ==
    IF is_done /\ eo = "ok" THEN Outcome(FALSE, TRUE)
    ELSE IF so = "ok" THEN Outcome(FALSE, TRUE)
    ELSE IF _is_unknown_interaction_error(so)
         THEN Outcome(FALSE, ch /\ co = "ok")
         ELSE Outcome(TRUE, FALSE)

\* channel: the preferred channel is not None; co: channel.send;
\* fo: fallback_sender
_announce_added(channel, co, fo) ==
    IF channel /\ co = "ok" THEN Outcome(FALSE, TRUE)
    ELSE IF fo = "ok" THEN Outcome(FALSE, TRUE)
    ELSE IF _is_unknown_interaction_error(fo) THEN Outcome(FALSE, FALSE)
    ELSE Outcome(TRUE, FALSE)

----------------------------------------------------------------------------
(* The /addradio handler: bot/main.py lines 436-567.  Every interaction    *)
(* carries a user; the clock (time.time()) is read at the cooldown gate    *)
(* and at the mark and never runs backwards.                               *)

IdleTask ==
    [pc |-> "idle", user |-> "none",
     \* the url argument, as the identifiers canonical_video_ids_from_text
     \* extracts from it
     url |-> <<>>,
     vids |-> <<>>, is_done |-> FALSE,
     channel |-> FALSE, idx |-> 0, func |-> "none",
     added |-> <<>>, duplicates |-> <<>>, too_long |-> <<>>, failures |-> <<>>,
     pending |-> "none", in_except |-> FALSE,
     \* history of the invocation: how the gate of lines 438-458 ended, the
     \* entry of the user the gate read ({} when there was none), the catalog
     \* calls issued, the positions whose insert succeeded, the messages sent
     gate |-> "none", last |-> {}, calls |-> {}, inserted |-> {}, msgs |-> <<>>]

Msg(kind, vid, delivered) ==
    [kind |-> kind, vid |-> vid, delivered |-> delivered, raised |-> FALSE]
\* the send of the message ended with an exception in the handler
Raised(msg, raised) == [msg EXCEPT !.raised = raised]

\* the handler awaits a catalog function through _call_with_retry
BeginCall(rec, idx, func) ==
    [rec EXCEPT !.pc = "call", !.idx = idx, !.func = func,
                !.calls = @ \cup {<<idx, func>>}]

\* the handler awaits _safe_followup_send(interaction, <kind>)
BeginReply(rec, kind) == [rec EXCEPT !.pc = "reply", !.pending = kind]

MutantOuterExceptSilent(rec) == [rec EXCEPT !.pc = "done", !.in_except = TRUE]

\* lines 561-567: the outermost except clause reports the error to the user
OuterExcept(rec) == [BeginReply(rec, "error") EXCEPT !.in_except = TRUE]

MutantOnSendRaisedEscapes(rec) ==
    IF ~rec.in_except THEN OuterExcept(rec) ELSE [rec EXCEPT !.pc = "escaped"]

\* a send of a message to the user raised: outside the outermost except clause
\* the exception reaches it (line 561); inside it, the try statement of lines
\* 564-567 swallows the exception and the handler returns
OnSendRaised(rec) ==
    IF ~rec.in_except THEN OuterExcept(rec) ELSE [rec EXCEPT !.pc = "done"]

\* the for loop of line 488 moves to the next identifier, or ends and the
\* summary of lines 532-558 is sent
NextItem(rec) ==
    IF rec.idx < Len(rec.vids)
    THEN BeginCall(rec, rec.idx + 1, "video_exists")
    ELSE BeginReply(rec, "summary")

\* one part of the summary: its heading and the identifiers of its lines
Part(head, items) == [head |-> head, items |-> items]
PartIf(head, items) == IF items # <<>> THEN <<Part(head, items)>> ELSE <<>>

Reversed(seq) == [i \in 1..Len(seq) |-> seq[Len(seq) + 1 - i]]

Mutant_summary_parts(rec) ==
    LET parts ==
            PartIf("Added to the playlist:", Reversed(rec.added))
            \o PartIf("Already in the playlist:", Reversed(rec.duplicates))
            \o PartIf("Too long (>10 minutes):", Reversed(rec.too_long))
            \o PartIf("Failed to add:",
                      Reversed([i \in 1..Len(rec.failures) |-> rec.failures[i][1]]))
    IN  IF parts = <<>> THEN <<Part("No videos were processed.", <<>>)>> ELSE parts

\* lines 532-552: the text of the summary
summary_parts(rec) ==
    LET parts ==
            PartIf("Added to the playlist:", rec.added)
            \o PartIf("Already in the playlist:", rec.duplicates)
            \o PartIf("Too long (>10 minutes):", rec.too_long)
            \o PartIf("Failed to add:",
                      [i \in 1..Len(rec.failures) |-> rec.failures[i][1]])
    IN  IF parts = <<>> THEN <<Part("No videos were processed.", <<>>)>> ELSE parts

MutantOnRaisedNoReauth(rec, exc) ==
    NextItem([rec EXCEPT !.failures = Append(@, <<rec.vids[rec.idx], exc>>)])

MutantOnRaisedRecordsExpiry(rec, exc) ==
    LET failed == [rec EXCEPT !.failures = Append(@, <<rec.vids[rec.idx], exc>>)]
    IN  IF exc = "CredentialsExpiredError"
        THEN BeginReply(failed, "reauth")
        ELSE NextItem(failed)

MutantOnRaisedStops(rec, exc) ==
    IF exc = "CredentialsExpiredError"
    THEN BeginReply(rec, "reauth")
    ELSE BeginReply([rec EXCEPT !.failures = Append(@, <<rec.vids[rec.idx], exc>>)],
                    "summary")

\* lines 525-530: the except clauses of the per-item try statement
OnRaised(rec, exc) ==
    IF exc = "CredentialsExpiredError"
    THEN BeginReply(rec, "reauth")
    ELSE NextItem([rec EXCEPT !.failures = Append(@, <<rec.vids[rec.idx], exc>>)])

MutantOnReturnedNoAwaitAnnounce(rec, value) ==
    LET vid == rec.vids[rec.idx] IN
    CASE rec.func = "video_exists" ->
            IF value = 1
            THEN NextItem([rec EXCEPT !.duplicates = Append(@, vid)])
            ELSE BeginCall(rec, rec.idx, "get_video_metadata")
      [] rec.func = "get_video_metadata" ->
            IF value > MAX_VIDEO_DURATION_SECONDS
            THEN NextItem([rec EXCEPT !.too_long = Append(@, vid)])
            ELSE BeginCall(rec, rec.idx, "add_to_playlist")
      [] OTHER ->
            NextItem([rec EXCEPT !.inserted = @ \cup {rec.idx}])

MutantOnReturnedCapExclusive(rec, value) ==
    LET vid == rec.vids[rec.idx] IN
    CASE rec.func = "video_exists" ->
            IF value = 1
            THEN NextItem([rec EXCEPT !.duplicates = Append(@, vid)])
            ELSE BeginCall(rec, rec.idx, "get_video_metadata")
      [] rec.func = "get_video_metadata" ->
            IF value >= MAX_VIDEO_DURATION_SECONDS
            THEN NextItem([rec EXCEPT !.too_long = Append(@, vid)])
            ELSE BeginCall(rec, rec.idx, "add_to_playlist")
      [] OTHER ->
            [rec EXCEPT !.pc = "announce", !.inserted = @ \cup {rec.idx}]

MutantOnReturnedIgnoresMembership(rec, value) ==
    LET vid == rec.vids[rec.idx] IN
    CASE rec.func = "video_exists" ->
            BeginCall(rec, rec.idx, "get_video_metadata")
      [] rec.func = "get_video_metadata" ->
            IF value > MAX_VIDEO_DURATION_SECONDS
            THEN NextItem([rec EXCEPT !.too_long = Append(@, vid)])
            ELSE BeginCall(rec, rec.idx, "add_to_playlist")
      [] OTHER ->
            [rec EXCEPT !.pc = "announce", !.inserted = @ \cup {rec.idx}]

\* lines 490-515: the handler resumes after a catalog call returned value
OnReturned(rec, value) ==
    LET vid == rec.vids[rec.idx] IN
    CASE rec.func = "video_exists" ->
            IF value = 1
            THEN NextItem([rec EXCEPT !.duplicates = Append(@, vid)])
            ELSE BeginCall(rec, rec.idx, "get_video_metadata")
      [] rec.func = "get_video_metadata" ->
            IF value > MAX_VIDEO_DURATION_SECONDS
            THEN NextItem([rec EXCEPT !.too_long = Append(@, vid)])
            ELSE BeginCall(rec, rec.idx, "add_to_playlist")
      [] OTHER ->
            [rec EXCEPT !.pc = "announce", !.inserted = @ \cup {rec.idx}]

MutantOnAnnouncedAddedFirst(rec, res) ==
    LET vid == rec.vids[rec.idx]
        said == [rec EXCEPT !.msgs = Append(@, Raised(Msg("announce", vid, res.delivered),
                                                       res.raised)),
                            !.added = Append(@, vid)]
    IN  IF res.raised THEN OnRaised(said, "Exception") ELSE NextItem(said)

\* lines 517-530: the handler resumes after _announce_added
OnAnnounced(rec, res) ==
    LET vid == rec.vids[rec.idx]
        said == [rec EXCEPT !.msgs = Append(@, Raised(Msg("announce", vid, res.delivered),
                                                       res.raised))]
    IN  IF res.raised
        THEN OnRaised(said, "Exception")
        ELSE NextItem([said EXCEPT !.added = Append(@, vid)])

\* the invocations that are inside the handler
Active == {o \in Tasks : task[o].pc \notin {"idle", "returned"}}

\* time.time(): the clock never runs backwards
ClockReadings == now..MaxTime

MutantInvokeCooldownFirst(t, faults, others) ==
    /\ task[t].pc = "idle"
    /\ Cardinality(Active) <= others
    /\ \E user \in Users, url \in Batches, in_channel \in BOOLEAN,
          current \in ClockReadings :
          LET rec == [task[t] EXCEPT !.user = user, !.url = url]
              remaining == _get_cooldown_remaining(_user_cooldowns, user, current)
          IN  /\ now' = current
              /\ task' = [task EXCEPT ![t] =
                     IF remaining > 0
                     THEN [rec EXCEPT !.pc = "respond", !.pending = "wait",
                                      !.gate = "rejected"]
                     ELSE IF ~in_channel
                     THEN [rec EXCEPT !.pc = "respond", !.pending = "redirect",
                                      !.gate = "redirect"]
                     ELSE [rec EXCEPT !.pc = "defer", !.gate = "passed",
                              !.last = IF user \in DOMAIN _user_cooldowns
                                       THEN {_user_cooldowns[user]} ELSE {}]]
    /\ UNCHANGED <<_user_cooldowns, playlist, retry, funcLog>>
    /\ UNCHANGED <<trackerVars, unit>>

\* lines 437-462: the command is invoked by user with the argument url, in the
\* configured channel (in_channel) or elsewhere, while at most `others`
\* invocations are inside the handler; the handler runs to its first await
Invoke(t, faults, others) ==
    /\ task[t].pc = "idle"
    /\ Cardinality(Active) <= others
    /\ \E user \in Users, url \in Batches, in_channel \in BOOLEAN,
          current \in ClockReadings :
          LET rec == [task[t] EXCEPT !.user = user, !.url = url]
              remaining == _get_cooldown_remaining(_user_cooldowns, user, current)
          IN  IF ~in_channel
              THEN /\ task' = [task EXCEPT ![t] =
                          [rec EXCEPT !.pc = "respond", !.pending = "redirect",
                                      !.gate = "redirect"]]
                   /\ now' = now
              ELSE /\ task' = [task EXCEPT ![t] =
                          IF remaining > 0
                          THEN [rec EXCEPT !.pc = "respond", !.pending = "wait",
                                           !.gate = "rejected"]
                          ELSE [rec EXCEPT !.pc = "defer", !.gate = "passed",
                                   !.last = IF user \in DOMAIN _user_cooldowns
                                            THEN {_user_cooldowns[user]} ELSE {}]]
                   /\ now' = current
    /\ UNCHANGED <<_user_cooldowns, playlist, retry, funcLog>>
    /\ UNCHANGED <<trackerVars, unit>>

\* lines 440-443 and 451-458: interaction.response.send_message ends
Respond(t, faults) ==
    /\ task[t].pc = "respond"
    /\ \E o \in InteractionOutcomes(faults) :
          LET said == [task[t] EXCEPT
                          !.msgs = Append(@, Raised(Msg(task[t].pending, "-", o = "ok"),
                                                    o # "ok"))]
          IN  task' = [task EXCEPT ![t] =
                  IF o = "ok" THEN [said EXCEPT !.pc = "done", !.is_done = TRUE]
                  ELSE OnSendRaised(said)]
    /\ UNCHANGED <<now, _user_cooldowns, playlist, retry, funcLog>>
    /\ UNCHANGED <<trackerVars, unit>>

\* lines 462-488: interaction.response.defer ends; the identifiers are
\* extracted, the cooldown is marked and the first catalog call starts
Defer(t, faults) ==
    /\ task[t].pc = "defer"
    /\ \E o \in InteractionOutcomes(faults),
          channel \in ChannelOutcomes(faults), current \in ClockReadings :
          LET vids == task[t].url IN
          IF o # "ok"
          THEN /\ task' = [task EXCEPT ![t] = OuterExcept(@)]
               /\ UNCHANGED <<now, _user_cooldowns, retry, funcLog>>
          ELSE IF vids = <<>>
          THEN /\ task' = [task EXCEPT ![t] =
                      BeginReply([@ EXCEPT !.is_done = TRUE], "novalid")]
               /\ UNCHANGED <<now, _user_cooldowns, retry, funcLog>>
          ELSE /\ now' = current
               /\ _user_cooldowns' =
                      _mark_cooldown(_user_cooldowns, task[t].user, current)
               /\ task' = [task EXCEPT ![t] =
                      BeginCall([@ EXCEPT !.is_done = TRUE, !.vids = vids,
                                          !.channel = channel],
                                1, "video_exists")]
               /\ retry' = [retry EXCEPT ![t] = RetryEntry("video_exists")]
               /\ funcLog' = [funcLog EXCEPT ![t] = <<>>]
    /\ UNCHANGED playlist
    /\ UNCHANGED <<trackerVars, unit>>

\* one attempt of the catalog call the handler is waiting for
CatalogAttempt(t, faults) ==
    /\ task[t].pc = "call"
    /\ retry[t].status = "running"
    /\ LET vid == task[t].vids[task[t].idx] IN
       \E o \in FuncOutcomes(task[t].func, vid, playlist, faults) :
          /\ retry' = [retry EXCEPT ![t] = _call_with_retry(@, o)]
          /\ funcLog' = [funcLog EXCEPT ![t] = Append(@, o)]
          /\ playlist' = IF task[t].func = "add_to_playlist" /\ o.exc = "None"
                         THEN Append(playlist, vid) ELSE playlist
    /\ UNCHANGED <<now, _user_cooldowns, task>>
    /\ UNCHANGED <<trackerVars, unit>>

\* lines 490-530: _call_with_retry returned or raised and the handler runs to
\* its next await
Resume(t) ==
    /\ task[t].pc = "call"
    /\ retry[t].status \in {"returned", "raised"}
    /\ task' = [task EXCEPT ![t] =
           IF retry[t].status = "returned"
           THEN OnReturned(@, retry[t].value)
           ELSE OnRaised(@, retry[t].raised.type)]
    /\ retry' = [retry EXCEPT ![t] =
           IF task'[t].pc = "call" THEN RetryEntry(task'[t].func) ELSE RetryIdle]
    /\ funcLog' = [funcLog EXCEPT ![t] = <<>>]
    /\ UNCHANGED <<now, _user_cooldowns, playlist>>
    /\ UNCHANGED <<trackerVars, unit>>

\* lines 517-530: _announce_added ends
Announce(t, faults) ==
    /\ task[t].pc = "announce"
    /\ \E co \in SendOutcomes(faults), fo \in InteractionOutcomes(faults) :
          task' = [task EXCEPT ![t] =
              OnAnnounced(@, _announce_added(task[t].channel, co, fo))]
    /\ retry' = [retry EXCEPT ![t] =
           IF task'[t].pc = "call" THEN RetryEntry(task'[t].func) ELSE @]
    /\ funcLog' = [funcLog EXCEPT ![t] = IF task'[t].pc = "call" THEN <<>> ELSE @]
    /\ UNCHANGED <<now, _user_cooldowns, playlist>>
    /\ UNCHANGED <<trackerVars, unit>>

\* lines 466-470, 526-527, 554-567: _safe_followup_send ends
Reply(t, faults) ==
    /\ task[t].pc = "reply"
    /\ \E eo \in SendOutcomes(faults), so \in InteractionOutcomes(faults),
          ch \in ChannelOutcomes(faults), co \in SendOutcomes(faults) :
          LET res == _safe_followup_send(task[t].is_done, eo, so, ch, co)
              said == [task[t] EXCEPT
                          !.msgs = Append(@, Raised(Msg(task[t].pending, "-", res.delivered),
                                                    res.raised))]
          IN  task' = [task EXCEPT ![t] =
                  IF res.raised THEN OnSendRaised(said)
                  ELSE [said EXCEPT !.pc = "done"]]
    /\ UNCHANGED <<now, _user_cooldowns, playlist, retry, funcLog>>
    /\ UNCHANGED <<trackerVars, unit>>

\* the handler has returned: its locals are gone
Return(t) ==
    /\ task[t].pc = "done"
    /\ task' = [task EXCEPT ![t] = [IdleTask EXCEPT !.pc = "returned"]]
    /\ UNCHANGED <<now, _user_cooldowns, playlist, retry, funcLog>>
    /\ UNCHANGED <<trackerVars, unit>>

\* the playlist before the bot runs
Playlists == {<<"a">>}

Init ==
    /\ now = 0
    /\ _user_cooldowns = <<>>
    /\ playlist \in Playlists
    /\ task = [t \in Tasks |-> IdleTask]
    /\ retry = [t \in Tasks |-> RetryIdle]
    /\ funcLog = [t \in Tasks |-> <<>>]
    /\ cooldown = IdleTracker
    /\ op = [t \in Tasks |-> IdleOp]
    /\ unit = [t \in Tasks |-> NoCall]

\* invocations one after another, with collaborators that may fail
Next ==
    \/ \E t \in Tasks :
          \/ Invoke(t, TRUE, 0)
          \/ Respond(t, TRUE)
          \/ Defer(t, TRUE)
          \/ CatalogAttempt(t, TRUE)
          \/ Resume(t)
          \/ Announce(t, TRUE)
          \/ Reply(t, TRUE)
          \/ Return(t)

Spec == Init /\ [][Next]_vars

\* a single invocation, on an empty playlist or on one that already holds
\* some of the videos, with collaborators that may fail
InitSingle ==
    /\ now = 0
    /\ _user_cooldowns = <<>>
    /\ playlist \in {<<>>, <<"a">>, <<"a", "b">>}
    /\ task = [t \in Tasks |->
                 IF t = 1 THEN IdleTask ELSE [IdleTask EXCEPT !.pc = "returned"]]
    /\ retry = [t \in Tasks |-> RetryIdle]
    /\ funcLog = [t \in Tasks |-> <<>>]
    /\ cooldown = IdleTracker
    /\ op = [t \in Tasks |-> IdleOp]
    /\ unit = [t \in Tasks |-> NoCall]

SpecSingle == InitSingle /\ [][Next]_vars

\* pairs of invocations that overlap in time, with collaborators that do not
\* fail
NextOverlap ==
    \/ \E t \in Tasks :
          \/ Invoke(t, FALSE, 1)
          \/ Respond(t, FALSE)
          \/ Defer(t, FALSE)
          \/ CatalogAttempt(t, FALSE)
          \/ Resume(t)
          \/ Announce(t, FALSE)
          \/ Reply(t, FALSE)
          \/ Return(t)

SpecOverlap == Init /\ [][NextOverlap]_vars

----------------------------------------------------------------------------
(* The retry executor on its own: executions of _call_with_retry wrapping   *)
(* an arbitrary operation.                                                  *)

OperationOutcomes ==
    {Returns(0), Returns(1), Raises("RuntimeError"), Raises("CredentialsExpiredError")}

\* a caller enters _call_with_retry
RetryBegin(t) ==
    /\ retry[t].status = "idle"
    /\ retry' = [retry EXCEPT ![t] = RetryEntry("operation")]
    /\ UNCHANGED <<funcLog, handlerVars>>
    /\ UNCHANGED <<trackerVars, unit>>

MutantRetryAttemptShared(t) ==
    /\ retry[t].status = "running"
    /\ \E o \in OperationOutcomes :
          /\ retry' = [x \in Tasks |->
                 IF x = t THEN _call_with_retry(retry[t], o)
                 ELSE IF retry[x].status = "running"
                      THEN [retry[x] EXCEPT !.attempt = @ + 1]
                      ELSE retry[x]]
          /\ funcLog' = [funcLog EXCEPT ![t] = Append(@, o)]
    /\ UNCHANGED handlerVars
    /\ UNCHANGED <<trackerVars, unit>>

\* the execution performs its next attempt
RetryAttempt(t) ==
    /\ retry[t].status = "running"
    /\ \E o \in OperationOutcomes :
          /\ retry' = [retry EXCEPT ![t] = _call_with_retry(@, o)]
          /\ funcLog' = [funcLog EXCEPT ![t] = Append(@, o)]
    /\ UNCHANGED handlerVars
    /\ UNCHANGED <<trackerVars, unit>>

InitRetry ==
    /\ now = 0
    /\ _user_cooldowns = <<>>
    /\ playlist = <<>>
    /\ task = [t \in Tasks |-> IdleTask]
    /\ retry = [t \in Tasks |-> RetryIdle]
    /\ funcLog = [t \in Tasks |-> <<>>]
    /\ cooldown = IdleTracker
    /\ op = [t \in Tasks |-> IdleOp]
    /\ unit = [t \in Tasks |-> NoCall]

NextRetry == \E t \in Tasks : RetryBegin(t) \/ RetryAttempt(t)

SpecRetry == InitRetry /\ [][NextRetry]_vars

----------------------------------------------------------------------------
(* Callers of the cooldown tracker.  A call reads the clock, takes the lock, *)
(* reads or writes the timestamp map and releases the lock; the steps of     *)
(* different callers interleave at the lock.                                 *)

ConfiguredValues == {Unset} \cup {Configured(v) : v \in -1..ADDRADIO_COOLDOWN_SECONDS}

InitTracker ==
    /\ now = 0
    /\ _user_cooldowns = <<>>
    /\ playlist = <<>>
    /\ task = [t \in Tasks |-> IdleTask]
    /\ retry = [t \in Tasks |-> RetryIdle]
    /\ funcLog = [t \in Tasks |-> <<>>]
    /\ \/ \E cooldown_seconds \in -1..ADDRADIO_COOLDOWN_SECONDS :
             cooldown = [IdleTracker EXCEPT
                            !.impl = "CooldownTracker",
                            !.arg = Configured(cooldown_seconds),
                            !.seconds = ClampedCooldownSeconds(cooldown_seconds)]
       \/ \E c \in ConfiguredValues :
             cooldown = [IdleTracker EXCEPT
                            !.impl = "main",
                            !.arg = c,
                            !.seconds = ConfiguredCooldownSeconds(c)]
    /\ op = [t \in Tasks |-> IdleOp]
    /\ unit = [t \in Tasks |-> NoCall]

\* the callers that are inside remaining or mark; at most two at a time
Calling == {o \in Tasks : op[o].pc # "idle"}

MutantTrackerCallNoWait(t) ==
    /\ op[t].pc = "idle"
    /\ Cardinality(Calling) <= 1
    /\ \E kind \in {"remaining", "mark"}, user \in Users, current \in ClockReadings :
          LET call == [IdleOp EXCEPT !.kind = kind, !.user = user, !.current = current]
          IN  /\ now' = current
              /\ IF ~enabled(cooldown)
                 THEN /\ op' = [op EXCEPT ![t] =
                             [call EXCEPT
                                 !.pc = "returned",
                                 !.value = IF kind = "remaining"
                                           THEN TrackerRemaining(cooldown, user, current)
                                           ELSE 0]]
                      /\ cooldown' = IF kind = "mark"
                                     THEN TrackerMark(cooldown, user, current)
                                     ELSE cooldown
                 ELSE /\ op' = [op EXCEPT ![t] = [call EXCEPT !.pc = "locked"]]
                      /\ cooldown' = [cooldown EXCEPT !.lock = t]
    /\ UNCHANGED <<_user_cooldowns, playlist, task, retry, funcLog, unit>>

\* a caller enters remaining or mark: a disabled tracker returns at once;
\* otherwise the clock is read and `async with lock` takes a free lock at once
\* and waits for a held one
TrackerCall(t) ==
    /\ op[t].pc = "idle"
    /\ Cardinality(Calling) <= 1
    /\ \E kind \in {"remaining", "mark"}, user \in Users, current \in ClockReadings :
          LET call == [IdleOp EXCEPT !.kind = kind, !.user = user, !.current = current]
          IN  /\ now' = current
              /\ IF ~enabled(cooldown)
                 THEN /\ op' = [op EXCEPT ![t] =
                             [call EXCEPT
                                 !.pc = "returned",
                                 !.value = IF kind = "remaining"
                                           THEN TrackerRemaining(cooldown, user, current)
                                           ELSE 0]]
                      /\ cooldown' = IF kind = "mark"
                                     THEN TrackerMark(cooldown, user, current)
                                     ELSE cooldown
                 ELSE IF cooldown.lock = 0
                 THEN /\ op' = [op EXCEPT ![t] = [call EXCEPT !.pc = "locked"]]
                      /\ cooldown' = [cooldown EXCEPT !.lock = t]
                 ELSE /\ op' = [op EXCEPT ![t] = [call EXCEPT !.pc = "waiting"]]
                      /\ cooldown' = cooldown
    /\ UNCHANGED <<_user_cooldowns, playlist, task, retry, funcLog, unit>>

\* a waiting caller gets the lock once it is free
TrackerAcquire(t) ==
    /\ op[t].pc = "waiting"
    /\ cooldown.lock = 0
    /\ op' = [op EXCEPT ![t].pc = "locked"]
    /\ cooldown' = [cooldown EXCEPT !.lock = t]
    /\ UNCHANGED <<now, _user_cooldowns, playlist, task, retry, funcLog, unit>>

\* the body of the with statement and the release of the lock
TrackerBody(t) ==
    /\ op[t].pc = "locked"
    /\ LET user == op[t].user
           entry == IF user \in DOMAIN cooldown.timestamps
                    THEN cooldown.timestamps[user] ELSE -1
       IN  IF op[t].kind = "remaining"
           THEN /\ op' = [op EXCEPT ![t] =
                       [@ EXCEPT !.pc = "returned", !.last = entry,
                                 !.value = TrackerRemaining(cooldown, user, op[t].current)]]
                /\ cooldown' = [cooldown EXCEPT !.lock = 0]
           ELSE /\ op' = [op EXCEPT ![t] = [@ EXCEPT !.pc = "returned", !.last = entry]]
                /\ cooldown' = [TrackerMark(cooldown, user, op[t].current)
                                   EXCEPT !.lock = 0]
    /\ UNCHANGED <<now, _user_cooldowns, playlist, task, retry, funcLog, unit>>

\* the caller has its result and goes on
TrackerReturn(t) ==
    /\ op[t].pc = "returned"
    /\ op' = [op EXCEPT ![t] = IdleOp]
    /\ UNCHANGED <<now, _user_cooldowns, playlist, task, retry, funcLog, cooldown, unit>>

NextTracker ==
    \E t \in Tasks :
        \/ TrackerCall(t)
        \/ TrackerAcquire(t)
        \/ TrackerBody(t)
        \/ TrackerReturn(t)

SpecTracker == InitTracker /\ [][NextTracker]_vars

----------------------------------------------------------------------------
(* The notification functions on their own, one send at a time:             *)
(* _announce_added (lines 284-321) and _safe_followup_send (lines 106-155). *)
(* A call record holds the inputs, the send the call is waiting for (pc)    *)
(* and the sends made so far with their outcomes.                           *)

Sent(route, outcome) == <<route, outcome>>

\* what the send (or the channel lookup) the call is waiting for can do
RouteOutcomes(route) ==
    CASE route \in {"response.send_message", "followup.send", "fallback_sender"} ->
            InteractionOutcomes(TRUE)
      [] route = "_resolve_channel_for_interaction" ->
            {IF ch THEN "channel" ELSE "none" : ch \in ChannelOutcomes(TRUE)}
      [] OTHER -> SendOutcomes(TRUE)

\* _announce_added is called with a channel (TRUE) or with None (FALSE)
AnnounceEntry(channel) ==
    [fn |-> "_announce_added", status |-> "running", channel |-> channel,
     is_done |-> FALSE,
     pc |-> IF channel THEN "channel.send" ELSE "fallback_sender", sends |-> <<>>]

\* _safe_followup_send is called on an interaction whose response is done
\* (TRUE) or not (FALSE)
SafeSendEntry(is_done) ==
    [fn |-> "_safe_followup_send", status |-> "running", channel |-> FALSE,
     is_done |-> is_done,
     pc |-> IF is_done THEN "edit_original_response" ELSE "response.send_message",
     sends |-> <<>>]

Finished(c, status) == [c EXCEPT !.status = status, !.pc = "none"]

MutantAnnounceAlwaysFallback(c, outcome) ==
    LET d == [c EXCEPT !.sends = Append(@, Sent(c.pc, outcome))] IN
    IF c.pc = "channel.send"
    THEN [d EXCEPT !.pc = "fallback_sender"]
    ELSE IF outcome = "ok" THEN Finished(d, "returned")
    ELSE IF _is_unknown_interaction_error(outcome) THEN Finished(d, "returned")
    ELSE Finished(d, "raised")

MutantAnnounceSwallowsAll(c, outcome) ==
    LET d == [c EXCEPT !.sends = Append(@, Sent(c.pc, outcome))] IN
    IF c.pc = "channel.send"
    THEN IF outcome = "ok" THEN Finished(d, "returned")
         ELSE [d EXCEPT !.pc = "fallback_sender"]
    ELSE Finished(d, "returned")

\* lines 303-321: the send _announce_added was waiting for ended with outcome
AnnounceStep(c, outcome) ==
    LET d == [c EXCEPT !.sends = Append(@, Sent(c.pc, outcome))] IN
    IF c.pc = "channel.send"
    THEN IF outcome = "ok" THEN Finished(d, "returned")
         ELSE [d EXCEPT !.pc = "fallback_sender"]
    ELSE IF outcome = "ok" THEN Finished(d, "returned")
    ELSE IF _is_unknown_interaction_error(outcome) THEN Finished(d, "returned")
    ELSE Finished(d, "raised")

MutantSafeSendStaleDoubleFailureRaises(c, outcome) ==
    LET d == [c EXCEPT !.sends = Append(@, Sent(c.pc, outcome))] IN
    CASE c.pc = "edit_original_response" ->
            IF outcome = "ok" THEN Finished(d, "returned")
            ELSE [d EXCEPT !.pc = "followup.send"]
      [] c.pc \in {"response.send_message", "followup.send"} ->
            IF outcome = "ok" THEN Finished(d, "returned")
            ELSE IF _is_unknown_interaction_error(outcome)
                 THEN [d EXCEPT !.pc = "_resolve_channel_for_interaction"]
                 ELSE Finished(d, "raised")
      [] c.pc = "_resolve_channel_for_interaction" ->
            IF outcome = "channel" THEN [d EXCEPT !.pc = "ch.send"]
            ELSE Finished(d, "returned")
      [] OTHER ->
            IF outcome = "ok" THEN Finished(d, "returned") ELSE Finished(d, "raised")

\* lines 114-155: the send (or the channel lookup) _safe_followup_send was
\* waiting for ended with outcome
SafeSendStep(c, outcome) ==
    LET d == [c EXCEPT !.sends = Append(@, Sent(c.pc, outcome))] IN
    CASE c.pc = "edit_original_response" ->
            IF outcome = "ok" THEN Finished(d, "returned")
            ELSE [d EXCEPT !.pc = "followup.send"]
      [] c.pc \in {"response.send_message", "followup.send"} ->
            IF outcome = "ok" THEN Finished(d, "returned")
            ELSE IF _is_unknown_interaction_error(outcome)
                 THEN [d EXCEPT !.pc = "_resolve_channel_for_interaction"]
                 ELSE Finished(d, "raised")
      [] c.pc = "_resolve_channel_for_interaction" ->
            IF outcome = "channel" THEN [d EXCEPT !.pc = "ch.send"]
            ELSE Finished(d, "returned")
      [] OTHER -> Finished(d, "returned")

\* a caller calls one of the two functions
NotifyCall(t) ==
    /\ unit[t].status = "idle"
    /\ \/ \E channel \in BOOLEAN : unit' = [unit EXCEPT ![t] = AnnounceEntry(channel)]
       \/ \E is_done \in BOOLEAN : unit' = [unit EXCEPT ![t] = SafeSendEntry(is_done)]
    /\ UNCHANGED <<now, _user_cooldowns, playlist, task, retry, funcLog, trackerVars>>

\* the send the call is waiting for ends
NotifySend(t) ==
    /\ unit[t].status = "running"
    /\ \E outcome \in RouteOutcomes(unit[t].pc) :
          unit' = [unit EXCEPT ![t] =
                      IF unit[t].fn = "_announce_added"
                      THEN AnnounceStep(@, outcome)
                      ELSE SafeSendStep(@, outcome)]
    /\ UNCHANGED <<now, _user_cooldowns, playlist, task, retry, funcLog, trackerVars>>

InitNotify ==
    /\ now = 0
    /\ _user_cooldowns = <<>>
    /\ playlist = <<>>
    /\ task = [t \in Tasks |-> IdleTask]
    /\ retry = [t \in Tasks |-> RetryIdle]
    /\ funcLog = [t \in Tasks |-> <<>>]
    /\ cooldown = IdleTracker
    /\ op = [t \in Tasks |-> IdleOp]
    /\ unit = [t \in Tasks |-> NoCall]

NextNotify == \E t \in Tasks : NotifyCall(t) \/ NotifySend(t)

SpecNotify == InitNotify /\ [][NextNotify]_vars

----------------------------------------------------------------------------
(* Properties of the retry executor, checked under SpecRetry *)

\* the waits of a full run, as the documentation of _call_with_retry states
\* them: every 5 seconds for the first ten failures, then 1, 5 and 10 minutes
DocumentedWaits == <<5, 5, 5, 5, 5, 5, 5, 5, 5, 5, 60, 300, 600>>

AllRetryable(t) ==
    \A k \in 1..Len(funcLog[t]) : funcLog[t][k].exc = "RuntimeError"

\* C8: an operation that fails with a retryable error on every attempt is
\* attempted exactly 14 times, the waits between the attempts are 5 seconds
\* ten times and then 60, 300 and 600 seconds, no wait follows the final
\* attempt, and the error raised is the error of the final (14th) attempt.
C8_RetryExhaustion ==
    \A t \in Tasks :
        /\ Len(funcLog[t]) <= 14
        /\ (AllRetryable(t) /\ Len(funcLog[t]) < 14 /\ Len(funcLog[t]) > 0) =>
              /\ retry[t].status = "running"
              /\ retry[t].sleeps = SubSeq(DocumentedWaits, 1, Len(funcLog[t]) - 1)
        /\ (AllRetryable(t) /\ Len(funcLog[t]) = 14) =>
              /\ retry[t].status = "raised"
              /\ retry[t].raised = [type |-> "RuntimeError", at |-> 14]
              /\ retry[t].sleeps = DocumentedWaits

C8_Witness ==
    \E t \in Tasks :
        /\ AllRetryable(t)
        /\ Len(funcLog[t]) = 14
        /\ retry[t].status = "raised"

\* C9: when an attempt raises the non-retryable CredentialsExpiredError, at
\* whatever position, that attempt is the last one, no wait is performed
\* after it, and the executor raises that same error.
C9_NonRetryableShortCircuit ==
    \A t \in Tasks : \A k \in 1..Len(funcLog[t]) :
        funcLog[t][k].exc = "CredentialsExpiredError" =>
            /\ k = Len(funcLog[t])
            /\ retry[t].status = "raised"
            /\ retry[t].raised = [type |-> "CredentialsExpiredError", at |-> k]
            /\ retry[t].sleeps = SubSeq(DocumentedWaits, 1, k - 1)

C9_Witness ==
    \E t \in Tasks :
        /\ Len(funcLog[t]) = 7
        /\ funcLog[t][7].exc = "CredentialsExpiredError"
        /\ retry[t].status = "raised"

\* C10: when the operation fails with retryable errors k-1 times and succeeds
\* on attempt k, the executor returns the operation's result after exactly k
\* attempts, having waited exactly the first k-1 waits of the plan, and makes
\* no attempt and no wait after the success.
C10_SuccessAfterFailures ==
    \A t \in Tasks : \A k \in 1..Len(funcLog[t]) :
        funcLog[t][k].exc = "None" =>
            /\ k = Len(funcLog[t])
            /\ k <= 14
            /\ retry[t].status = "returned"
            /\ retry[t].value = funcLog[t][k].value
            /\ retry[t].attempt = k
            /\ retry[t].sleeps = SubSeq(DocumentedWaits, 1, k - 1)

\* three failures, then success: waits [5, 5, 5]
C10_Witness ==
    \E t \in Tasks :
        /\ Len(funcLog[t]) = 4
        /\ funcLog[t][4].exc = "None"
        /\ retry[t].status = "returned"
        /\ retry[t].sleeps = <<5, 5, 5>>

----------------------------------------------------------------------------
(* Properties of the /addradio handler *)

KindCount(t, kind) ==
    Cardinality({i \in 1..Len(task[t].msgs) : task[t].msgs[i].kind = kind})

\* the handler is sending, or has sent, the message of this kind
EndsWith(t, kind) == task[t].pending = kind \/ KindCount(t, kind) > 0

FailedVids(t) == {task[t].failures[i][1] : i \in 1..Len(task[t].failures)}

GroupsOf(t, v) ==
    (IF v \in Range(task[t].added) THEN 1 ELSE 0)
    + (IF v \in Range(task[t].duplicates) THEN 1 ELSE 0)
    + (IF v \in Range(task[t].too_long) THEN 1 ELSE 0)
    + (IF v \in FailedVids(t) THEN 1 ELSE 0)

Recorded(t) ==
    Len(task[t].added) + Len(task[t].duplicates) + Len(task[t].too_long)
    + Len(task[t].failures)

\* C1: in a batch that is not aborted by credential expiry every extracted
\* identifier is recorded in exactly one of added, duplicates, too_long and
\* failures: while the loop runs the identifiers before the current one are in
\* exactly one group and the later ones in none, no identifier is ever in two
\* groups or twice in one, and when the summary is sent every identifier is in
\* exactly one group.
C1_ExactlyOneGroup ==
    \A t \in Tasks :
        /\ \A i \in 1..Len(task[t].vids) :
              /\ GroupsOf(t, task[t].vids[i]) <= 1
              /\ (task[t].pc \in {"call", "announce"} /\ i < task[t].idx) =>
                    GroupsOf(t, task[t].vids[i]) = 1
              /\ (task[t].pc \in {"call", "announce"} /\ i >= task[t].idx) =>
                    GroupsOf(t, task[t].vids[i]) = 0
              /\ EndsWith(t, "summary") => GroupsOf(t, task[t].vids[i]) = 1
        /\ Recorded(t) <= Len(task[t].vids)
        /\ EndsWith(t, "summary") => Recorded(t) = Len(task[t].vids)
        /\ (task[t].pc \in {"reply", "done"} /\ task[t].vids # <<>>) =>
              (EndsWith(t, "summary") \/ EndsWith(t, "reauth"))

C1_Witness ==
    \E t \in Tasks :
        /\ task[t].pc = "done"
        /\ KindCount(t, "summary") = 1
        /\ Len(task[t].vids) = 2
        /\ Len(task[t].failures) = 1
        /\ Len(task[t].added) = 1

\* the user has an entry and the window has not elapsed at clock reading c
PositiveRemaining(u, c) ==
    /\ u \in DOMAIN _user_cooldowns
    /\ ADDRADIO_COOLDOWN_SECONDS - (c - _user_cooldowns[u]) > 0

C2_State ==
    \A t \in Tasks :
        task[t].gate = "rejected" =>
            /\ task[t].calls = {}
            /\ task[t].inserted = {}
            /\ task[t].vids = <<>>
            /\ retry[t].status = "idle"
            /\ task[t].pc \in {"respond", "reply", "done"}
            /\ KindCount(t, "wait") = (IF task[t].pc = "respond" THEN 0 ELSE 1)
            /\ KindCount(t, "announce") = 0
            /\ KindCount(t, "summary") = 0

C2_Step ==
    \A t \in Tasks :
        /\ (/\ task[t].pc = "idle"
            /\ task'[t].pc # "idle"
            /\ task'[t].gate # "redirect"
            /\ PositiveRemaining(task'[t].user, now')) =>
                /\ task'[t].gate = "rejected"
                /\ task'[t].pc = "respond"
                /\ task'[t].pending = "wait"
        /\ task'[t].gate = "rejected" =>
                /\ _user_cooldowns' = _user_cooldowns
                /\ playlist' = playlist

\* C2: an invocation that reaches the cooldown gate while the user's remaining
\* cooldown is positive is rejected: the handler sends the wait message once,
\* issues no membership, metadata or insert call, extracts no identifier and
\* leaves the cooldown map (and the playlist) unchanged.
C2_CooldownRejection == []C2_State /\ [][C2_Step]_vars

C2_Witness ==
    \E t \in Tasks :
        /\ task[t].gate = "rejected"
        /\ task[t].pc = "done"
        /\ task[t].msgs = <<Msg("wait", "-", TRUE)>>
        /\ task[t].user \in DOMAIN _user_cooldowns

\* the step in which invocation t marks the cooldown (line 473)
Marking(t) == task[t].pc = "defer" /\ task'[t].pc = "call"

\* C3 as stated: whenever an invocation of a user is accepted (marks the
\* cooldown), at least the window has elapsed since the mark of the user's
\* previous accepted invocation.
C3_AcceptedSpacing ==
    [][\A t \in Tasks :
          (Marking(t) /\ task[t].user \in DOMAIN _user_cooldowns) =>
              now' - _user_cooldowns[task[t].user] >= ADDRADIO_COOLDOWN_SECONDS]_vars

\* C3 amended: an accepted invocation of a user marks the cooldown at least the
\* window after the previous mark of that user, provided that previous mark is
\* the one its gate check read (no invocation of the user marked between the
\* gate check and the mark).
C3_SpacingWhenMarkWasRead ==
    [][\A t \in Tasks :
          (/\ Marking(t)
           /\ task[t].user \in DOMAIN _user_cooldowns
           /\ _user_cooldowns[task[t].user] \in task[t].last) =>
              now' - _user_cooldowns[task[t].user] >= ADDRADIO_COOLDOWN_SECONDS]_vars

C3_Witness ==
    \E t \in Tasks :
        /\ task[t].pc = "call"
        /\ task[t].last # {}
        /\ \E o \in Tasks \ {t} : task[o].user = task[t].user /\ task[o].vids # <<>>

\* the catalog call that t is waiting for has raised the credential-expiry
\* error
CredRaised(t) ==
    /\ task[t].pc = "call"
    /\ Len(funcLog[t]) > 0
    /\ funcLog[t][Len(funcLog[t])].exc = "CredentialsExpiredError"

C4_State ==
    \A t \in Tasks :
        /\ \A i \in 1..Len(task[t].failures) :
              task[t].failures[i][2] # "CredentialsExpiredError"
        /\ EndsWith(t, "reauth") =>
              /\ task[t].pc \in {"reply", "done"}
              /\ retry[t].status = "idle"
              /\ \A c \in task[t].calls : c[1] <= task[t].idx
              /\ KindCount(t, "summary") = 0
              /\ task[t].pending # "summary"
              /\ KindCount(t, "reauth") =
                    (IF task[t].pc = "reply" /\ task[t].pending = "reauth" THEN 0 ELSE 1)
              /\ task[t].vids[task[t].idx] \notin FailedVids(t)

C4_Step ==
    \A t \in Tasks :
        (CredRaised(t) /\ task'[t] # task[t]) =>
            /\ task'[t] = [task[t] EXCEPT !.pc = "reply", !.pending = "reauth"]
            /\ playlist' = playlist

\* C4: when a catalog call for the identifier at position k raises the
\* credential-expiry error the batch stops: the handler's next step sends the
\* re-authentication message and records nothing, no call is ever issued for
\* an identifier after position k, the re-authentication message is sent
\* exactly once, no summary is sent, and neither that identifier nor any other
\* is recorded as failed because of the credential expiry.
C4_CredentialExpiryAborts == []C4_State /\ [][C4_Step]_vars

C4_Witness ==
    \E t \in Tasks :
        /\ task[t].pc = "done"
        /\ KindCount(t, "reauth") = 1
        /\ task[t].idx = 1
        /\ Len(task[t].vids) = 2

AnnouncedVids(t) ==
    {task[t].msgs[i].vid : i \in {j \in 1..Len(task[t].msgs) :
                                     task[t].msgs[j].kind = "announce"}}

\* C5 as stated: an invocation that ends with a batch-level error (credential
\* expiry, cooldown rejection, empty extraction) has no successful insert and
\* no public announcement.
C5_NoWorkBeforeBatchError ==
    \A t \in Tasks :
        (EndsWith(t, "reauth") \/ EndsWith(t, "wait") \/ EndsWith(t, "novalid")) =>
            /\ task[t].inserted = {}
            /\ AnnouncedVids(t) = {}

\* C5 amended: a cooldown rejection or an empty extraction happens before any
\* per-item work (no catalog call, no insert, no announcement); a credential
\* expiry stops the batch at the identifier whose call raised it, so that no
\* insert has succeeded and no announcement has been sent for that identifier
\* or a later one, while earlier identifiers may have been inserted and
\* announced; credential expiry is never recorded as a per-item failure.
C5_BatchErrorStopsAtItem ==
    \A t \in Tasks :
        /\ (EndsWith(t, "wait") \/ EndsWith(t, "novalid")) =>
              /\ task[t].calls = {}
              /\ task[t].inserted = {}
              /\ AnnouncedVids(t) = {}
        /\ EndsWith(t, "reauth") =>
              /\ \A i \in task[t].inserted : i < task[t].idx
              /\ AnnouncedVids(t) \subseteq
                    {task[t].vids[i] : i \in 1..(task[t].idx - 1)}
        /\ \A i \in 1..Len(task[t].failures) :
              task[t].failures[i][2] # "CredentialsExpiredError"

C5_Witness ==
    \E t \in Tasks :
        /\ task[t].pc = "done"
        /\ KindCount(t, "reauth") = 1
        /\ task[t].inserted = {1}
        /\ task[t].idx = 2
        /\ AnnouncedVids(t) = {task[t].vids[1]}

\* the catalog call that t is waiting for has failed with a retryable error on
\* every attempt of the retry plan
Exhausted(t) ==
    /\ task[t].pc = "call"
    /\ Len(funcLog[t]) = 14
    /\ AllRetryable(t)

C6_State ==
    \A t \in Tasks :
        /\ Exhausted(t) => retry[t].status = "raised"
        /\ EndsWith(t, "summary") =>
              \A i \in 1..Len(task[t].vids) : <<i, "video_exists">> \in task[t].calls
        /\ (task[t].failures # <<>> /\ task[t].pc \in {"reply", "done"}) =>
              (EndsWith(t, "summary") \/ EndsWith(t, "reauth"))

C6_Step ==
    \A t \in Tasks :
        (Exhausted(t) /\ task'[t] # task[t]) =>
            LET vid == task[t].vids[task[t].idx] IN
            /\ task'[t].failures = Append(task[t].failures, <<vid, "RuntimeError">>)
            /\ task'[t].added = task[t].added
            /\ task'[t].duplicates = task[t].duplicates
            /\ task'[t].too_long = task[t].too_long
            /\ IF task[t].idx < Len(task[t].vids)
               THEN /\ task'[t].pc = "call"
                    /\ task'[t].idx = task[t].idx + 1
                    /\ task'[t].func = "video_exists"
                    /\ retry'[t].status = "running"
               ELSE /\ task'[t].pc = "reply"
                    /\ task'[t].pending = "summary"

\* C6: when the membership check, the metadata fetch or the insert for an
\* identifier fails with a retryable error on all 14 attempts, the handler
\* records that identifier as failed with the error, changes no other group,
\* and goes on with the next identifier (or, after the last one, sends the
\* summary); a batch with a failed identifier ends only with the summary, by
\* which time every identifier has been processed, or with a
\* credential-expiry abort.
C6_FailureDoesNotStopBatch == []C6_State /\ [][C6_Step]_vars

C6_Witness ==
    \E t \in Tasks :
        /\ task[t].pc = "done"
        /\ KindCount(t, "summary") = 1
        /\ Len(task[t].vids) = 2
        /\ task[t].failures = <<<<task[t].vids[1], "RuntimeError">>>>
        /\ task[t].inserted = {2}

\* C7: in a batch that reaches the summary an identifier is recorded as added
\* exactly when its insert succeeded, and an identifier whose insert succeeded
\* is never recorded as failed.
C7_AddedIffInserted ==
    \A t \in Tasks :
        EndsWith(t, "summary") =>
            \A i \in 1..Len(task[t].vids) :
                /\ (task[t].vids[i] \in Range(task[t].added)) <=> (i \in task[t].inserted)
                /\ (i \in task[t].inserted) => task[t].vids[i] \notin FailedVids(t)

----------------------------------------------------------------------------
(* Concurrent executions of the retry executor, checked under SpecRetry *)

C11_State ==
    \A t \in Tasks :
        /\ Len(funcLog[t]) <= 14
        /\ retry[t].attempt = Len(funcLog[t])
        /\ retry[t].sleeps = SubSeq(DocumentedWaits, 1, Len(funcLog[t]) - 1)
        /\ \A o \in Tasks :
              (/\ retry[o].status # "idle"
               /\ retry[t].status # "idle"
               /\ funcLog[o] = funcLog[t]) => retry[o] = retry[t]

C11_Step ==
    \A t \in Tasks :
        funcLog'[t] = funcLog[t] => retry'[t].attempt = retry[t].attempt
                                   /\ retry'[t].sleeps = retry[t].sleeps
                                   /\ retry'[t].status \in {retry[t].status, "running"}

\* C11: under any interleaving of two executions of _call_with_retry each
\* execution makes at most 14 attempts, its attempt counter equals the number
\* of calls of its own operation, its waits are the documented waits for that
\* number of calls, two started executions with the same outcomes of their own
\* operations have the same locals, and an attempt of one execution changes
\* neither the attempt counter nor the waits of the other.
C11_NoSharedAttemptState == []C11_State /\ [][C11_Step]_vars

\* one execution has exhausted its plan while the other is at its third attempt
C11_Witness ==
    \E t \in Tasks, o \in Tasks :
        /\ retry[t].status = "raised" /\ retry[t].attempt = 14
        /\ retry[o].status = "running" /\ retry[o].attempt = 3
        /\ funcLog[o][1].exc = "RuntimeError"

----------------------------------------------------------------------------
(* Per-item outcomes of the /addradio handler, checked under Spec *)

\* the call of func that t is waiting for has returned value
CallReturned(t, func, value) ==
    /\ task[t].pc = "call"
    /\ task[t].func = func
    /\ retry[t].status = "returned"
    /\ retry[t].value = value

\* the handler goes on after the identifier at position idx of rec
GoesOn(t) ==
    IF task[t].idx < Len(task[t].vids)
    THEN /\ task'[t].pc = "call"
         /\ task'[t].idx = task[t].idx + 1
         /\ task'[t].func = "video_exists"
    ELSE /\ task'[t].pc = "reply"
         /\ task'[t].pending = "summary"

C12_State ==
    \A t \in Tasks :
        /\ \A i \in 1..Len(task[t].vids) :
              task[t].vids[i] \in Range(task[t].duplicates) =>
                  /\ <<i, "get_video_metadata">> \notin task[t].calls
                  /\ <<i, "add_to_playlist">> \notin task[t].calls
                  /\ i \notin task[t].inserted
                  /\ task[t].vids[i] \notin AnnouncedVids(t)
        /\ (task[t].pc = "call" /\ task[t].func = "video_exists"
              /\ retry[t].status = "returned") =>
                  (retry[t].value = 1 <=> task[t].vids[task[t].idx] \in Range(playlist))

C12_Step ==
    \A t \in Tasks :
        (CallReturned(t, "video_exists", 1) /\ task'[t] # task[t]) =>
            /\ task'[t].duplicates = Append(task[t].duplicates, task[t].vids[task[t].idx])
            /\ task'[t].added = task[t].added
            /\ task'[t].too_long = task[t].too_long
            /\ task'[t].failures = task[t].failures
            /\ task'[t].calls \subseteq
                  task[t].calls \cup {<<task[t].idx + 1, "video_exists">>}
            /\ GoesOn(t)
            /\ playlist' = playlist

\* C12: a membership scan that ends without error returns True exactly when
\* the identifier is in the playlist, on whatever page; the handler then
\* records the identifier as a duplicate and nothing else, and goes on with
\* the next identifier; for an identifier recorded as a duplicate no metadata
\* fetch and no insert call is ever issued, and nothing is inserted or
\* announced.
C12_DuplicateSkipsInsert == []C12_State /\ [][C12_Step]_vars

\* the duplicate was found beyond the first page of the playlist
C12_Witness ==
    \E t \in Tasks :
        /\ task[t].pc = "done"
        /\ KindCount(t, "summary") = 1
        /\ task[t].duplicates = <<"b">>
        /\ playlist = <<"a", "b">>
        /\ "b" \notin Range(PageItems(playlist, 0))

\* the metadata fetch that t is waiting for has returned a duration
MetadataReturned(t) ==
    /\ task[t].pc = "call"
    /\ task[t].func = "get_video_metadata"
    /\ retry[t].status = "returned"

C13_State ==
    \A t \in Tasks : \A i \in 1..Len(task[t].vids) :
        /\ task[t].vids[i] \in Range(task[t].too_long) =>
              /\ <<i, "get_video_metadata">> \in task[t].calls
              /\ <<i, "add_to_playlist">> \notin task[t].calls
              /\ i \notin task[t].inserted
        /\ <<i, "add_to_playlist">> \in task[t].calls =>
              <<i, "get_video_metadata">> \in task[t].calls

C13_Step ==
    \A t \in Tasks :
        (MetadataReturned(t) /\ task'[t] # task[t]) =>
            IF retry[t].value > 600
            THEN /\ task'[t].too_long = Append(task[t].too_long, task[t].vids[task[t].idx])
                 /\ <<task[t].idx, "add_to_playlist">> \notin task'[t].calls
                 /\ GoesOn(t)
            ELSE /\ task'[t].too_long = task[t].too_long
                 /\ task'[t].pc = "call"
                 /\ task'[t].idx = task[t].idx
                 /\ task'[t].func = "add_to_playlist"
                 /\ <<task[t].idx, "add_to_playlist">> \in task'[t].calls
                 /\ retry'[t].status = "running"

\* C13: when the metadata fetch of an identifier returns, the handler records
\* the identifier as too long and goes on without an insert call if the
\* duration is strictly greater than 600 seconds, and otherwise (600 seconds
\* included) records nothing and issues the insert call; an identifier
\* recorded as too long never has an insert call or a successful insert.
C13_TooLongStrictlyAboveCap == []C13_State /\ [][C13_Step]_vars

\* the metadata fetch of the second identifier of a batch has reported exactly
\* 600 seconds and the handler is about to go on
C13_Witness ==
    \E t \in Tasks :
        /\ MetadataReturned(t)
        /\ retry[t].value = 600
        /\ task[t].idx = 2
        /\ task[t].too_long = <<>>

----------------------------------------------------------------------------
(* The cooldown mark of an accepted batch, checked under Spec *)

C14_State ==
    \A t \in Tasks :
        task[t].calls # {} =>
            /\ task[t].user \in DOMAIN _user_cooldowns
            /\ _user_cooldowns[task[t].user] <= now
            /\ \A earlier \in task[t].last : _user_cooldowns[task[t].user] >= earlier

C14_Step ==
    /\ \A u \in DOMAIN _user_cooldowns :
          /\ u \in DOMAIN _user_cooldowns'
          /\ _user_cooldowns'[u] >= _user_cooldowns[u]
    /\ \A t \in Tasks :
          /\ (task[t].calls = {} /\ task'[t].calls # {}) =>
                /\ task'[t].calls = {<<1, "video_exists">>}
                /\ task'[t].user \in DOMAIN _user_cooldowns'
                /\ _user_cooldowns'[task'[t].user] = now'
          /\ (task[t].calls # {} /\ task'[t] # task[t]) =>
                _user_cooldowns' = _user_cooldowns

\* C14: the step that issues the first catalog call of a batch has recorded
\* the user's cooldown timestamp with the current time; from then on, whatever
\* the items end as (added, duplicate, too long, failed) and also when the
\* batch is aborted by credential expiry, no step of the invocation changes
\* the cooldown map, and no step of any invocation removes an entry of the map
\* or sets it to an earlier time.
C14_MarkNotRefunded == []C14_State /\ [][C14_Step]_vars

\* a batch whose identifiers all failed, or a batch aborted by credential
\* expiry, has ended and the user's mark is still there
C14_Witness ==
    \E t \in Tasks :
        /\ task[t].pc = "done"
        /\ task[t].user \in DOMAIN _user_cooldowns
        /\ \/ KindCount(t, "reauth") = 1
           \/ Len(task[t].failures) = Len(task[t].vids) /\ KindCount(t, "summary") = 1
        /\ task[t].vids # <<>>

----------------------------------------------------------------------------
(* Input without an identifier *)

\* C15: an invocation in the configured channel whose argument yields no
\* identifier is never answered with the wait message, whatever the user's
\* cooldown state: it issues no catalog call (the cooldown is marked only in
\* the step that issues the first one) and, once the handler has returned from
\* its replies, it has sent the "no valid link" message (or, when a send
\* failed, the error report).
C15_EmptyInputAlwaysNoValid ==
    \A t \in Tasks :
        (task[t].gate \in {"rejected", "passed"} /\ task[t].url = <<>>) =>
            /\ task[t].calls = {}
            /\ task[t].pending # "wait"
            /\ KindCount(t, "wait") = 0
            /\ task[t].pc = "done" =>
                  (KindCount(t, "novalid") = 1 \/ KindCount(t, "error") = 1)

----------------------------------------------------------------------------
(* Order of processing inside one batch, checked under SpecSingle *)

\* positions of the identifiers that t has announced, in the order of the
\* announcements
AnnouncedPositions(t) ==
    LET ann == SelectSeq(task[t].msgs, LAMBDA m : m.kind = "announce")
    IN  [k \in 1..Len(ann) |->
            CHOOSE i \in 1..Len(task[t].vids) : task[t].vids[i] = ann[k].vid]

C16_State ==
    \A t \in Tasks :
        /\ \A c \in task[t].calls : c[1] <= task[t].idx
        /\ \A i \in task[t].inserted : i <= task[t].idx
        /\ \A k \in 1..Len(AnnouncedPositions(t)) :
              /\ AnnouncedPositions(t)[k] <= task[t].idx
              /\ AnnouncedPositions(t)[k] \in task[t].inserted
              /\ k > 1 => AnnouncedPositions(t)[k - 1] < AnnouncedPositions(t)[k]
        /\ task[t].pc \in {"call", "announce"} =>
              \A i \in 1..(task[t].idx - 1) : GroupsOf(t, task[t].vids[i]) = 1

C16_Step ==
    \A t \in Tasks :
        /\ \A c \in task'[t].calls \ task[t].calls :
              /\ task'[t].calls = task[t].calls \cup {c}
              /\ c[1] = task'[t].idx
              /\ c[1] \in {task[t].idx, task[t].idx + 1}
              /\ \A i \in 1..(c[1] - 1) : GroupsOf(t, task[t].vids[i])' = 1
              /\ task[t].pc = "call" => retry[t].status \in {"returned", "raised"}
        /\ \A i \in task'[t].inserted \ task[t].inserted :
              /\ i = task[t].idx
              /\ \A j \in task[t].inserted : j < i
              /\ playlist = playlist'
              /\ playlist[Len(playlist)] = task[t].vids[i]
        /\ Len(AnnouncedPositions(t)') > Len(AnnouncedPositions(t)) =>
              /\ task[t].pc = "announce"
              /\ AnnouncedPositions(t)' = Append(AnnouncedPositions(t), task[t].idx)

\* C16: inside one batch a catalog call is only ever issued for the current
\* identifier or, once the current identifier has been recorded in its group
\* and its pending call has ended, for the next one; every earlier identifier
\* has then been recorded; successful inserts happen at the current position
\* and therefore in increasing position, and the announcements are sent for
\* inserted identifiers in increasing position.
C16_SequentialInInputOrder == []C16_State /\ [][C16_Step]_vars

\* two identifiers inserted and announced one after the other
C16_Witness ==
    \E t \in Tasks :
        /\ task[t].inserted = {1, 2}
        /\ AnnouncedPositions(t) = <<1, 2>>
        /\ playlist = task[t].vids

\* the position of identifier v in the extracted sequence of t
PositionOf(t, v) == CHOOSE i \in 1..Len(task[t].vids) : task[t].vids[i] = v

SummaryHeads ==
    <<"Added to the playlist:", "Already in the playlist:",
      "Too long (>10 minutes):", "Failed to add:">>

\* C17: the summary has one part per non-empty kind of outcome, in the order
\* added, already in the playlist, too long, failed; every extracted
\* identifier is listed in exactly one part, and inside each part the
\* identifiers are listed in increasing position of the extracted sequence.
C17_SummaryGroupedInInputOrder ==
    \A t \in Tasks :
        EndsWith(t, "summary") =>
            LET parts == summary_parts(task[t]) IN
            /\ \A p \in 1..Len(parts) :
                  /\ parts[p].items # <<>>
                  /\ \E h \in 1..4 : parts[p].head = SummaryHeads[h]
                  /\ \A q \in 1..Len(parts) : \A h, g \in 1..4 :
                        (p < q /\ parts[p].head = SummaryHeads[h]
                               /\ parts[q].head = SummaryHeads[g]) => h < g
                  /\ \A j, k \in 1..Len(parts[p].items) :
                        j < k => PositionOf(t, parts[p].items[j])
                                 < PositionOf(t, parts[p].items[k])
            /\ \A i \in 1..Len(task[t].vids) :
                  Cardinality({p \in 1..Len(parts) :
                                 task[t].vids[i] \in Range(parts[p].items)}) = 1

\* a summary that lists both identifiers of the batch in one group
C17_Witness ==
    \E t \in Tasks :
        /\ task[t].pc = "done"
        /\ KindCount(t, "summary") = 1
        /\ Len(task[t].vids) = 2
        /\ Len(summary_parts(task[t])) = 1
        /\ summary_parts(task[t])[1].items = task[t].vids

----------------------------------------------------------------------------
(* Properties of the cooldown tracker, checked under SpecTracker *)

\* caller t is in the step that runs the body of its call of kind
InBody(t, kind) == op[t].pc = "locked" /\ op[t].kind = kind /\ op'[t].pc = "returned"

C18_State ==
    \A t \in Tasks :
        (/\ op[t].pc = "returned"
         /\ op[t].kind = "remaining"
         /\ enabled(cooldown)
         /\ op[t].last >= 0
         /\ op[t].current >= op[t].last) =>
            LET W == cooldown.seconds
                D == op[t].current - op[t].last
            IN  /\ op[t].value = (IF W - D > 0 THEN W - D ELSE 0)
                /\ W = ADDRADIO_COOLDOWN_SECONDS =>
                      _get_cooldown_remaining(op[t].user :> op[t].last,
                                              op[t].user, op[t].current)
                      = (IF W - D > 0 THEN W - D ELSE 0)

C18_Step ==
    \A t \in Tasks :
        /\ InBody(t, "mark") =>
              /\ DOMAIN cooldown'.timestamps = DOMAIN cooldown.timestamps \cup {op[t].user}
              /\ cooldown'.timestamps[op[t].user] = op[t].current
              /\ \A u \in DOMAIN cooldown.timestamps \ {op[t].user} :
                    cooldown'.timestamps[u] = cooldown.timestamps[u]
        /\ InBody(t, "remaining") =>
              /\ cooldown'.timestamps = cooldown.timestamps
              /\ op[t].user \in DOMAIN cooldown.timestamps =>
                    op'[t].last = cooldown.timestamps[op[t].user]
        /\ (\A o \in Tasks : ~InBody(o, "mark")) =>
              cooldown'.timestamps = cooldown.timestamps

\* C18: in an enabled tracker with window W (the class CooldownTracker or the
\* functions of bot/main.py) the timestamp of a user is the time given to the
\* user's latest mark, since mark stores its time for its user and nothing
\* else changes the map; and a call of remaining at a time that is D >= 0
\* after that timestamp returns W - D when that is positive and 0 otherwise,
\* as does _get_cooldown_remaining for the handler's window.
C18_RemainingIsWindowMinusElapsed == []C18_State /\ [][C18_Step]_vars

\* remaining was called more than the window after the user's mark
C18_Witness ==
    \E t \in Tasks :
        /\ op[t].pc = "returned"
        /\ op[t].kind = "remaining"
        /\ enabled(cooldown)
        /\ op[t].last >= 0
        /\ op[t].current - op[t].last > cooldown.seconds
        /\ op[t].value = 0

\* C19: a window that is configured (or given to the constructor) as zero or
\* negative is stored as 0 and disables the tracker; in a disabled tracker,
\* after any sequence of mark and remaining calls, the timestamp map is empty,
\* the lock has never been taken and every call of remaining has returned 0;
\* in an enabled tracker a call of remaining for a user without an entry
\* returns 0.
C19_DisabledTrackerStaysEmpty ==
    /\ cooldown.seconds >= 0
    /\ (cooldown.arg.set /\ cooldown.arg.value <= 0) => ~enabled(cooldown)
    /\ ~enabled(cooldown) =>
          /\ cooldown.seconds = 0
          /\ cooldown.timestamps = <<>>
          /\ cooldown.lock = 0
          /\ \A t \in Tasks :
                /\ op[t].pc \in {"idle", "returned"}
                /\ op[t].pc = "returned" => op[t].value = 0 /\ op[t].last = -1
    /\ enabled(cooldown) =>
          \A t \in Tasks :
              (op[t].pc = "returned" /\ op[t].kind = "remaining" /\ op[t].last = -1) =>
                  op[t].value = 0

\* a tracker configured with a negative window: a mark has returned and, at a
\* later time, a call of remaining has returned
C19_Witness ==
    \E t \in Tasks, o \in Tasks :
        /\ cooldown.arg = Configured(-1)
        /\ op[t].pc = "returned" /\ op[t].kind = "mark"
        /\ op[o].pc = "returned" /\ op[o].kind = "remaining"
        /\ op[o].user = op[t].user
        /\ op[o].current > op[t].current

C20_State ==
    /\ Cardinality({t \in Tasks : op[t].pc = "locked"}) <= 1
    /\ \A t \in Tasks : op[t].pc = "locked" <=> cooldown.lock = t
    /\ cooldown.lock \in Tasks \cup {0}

C20_Step ==
    /\ \A t \in Tasks :
          \* the step of t that reads or writes the map
          (op[t].pc # "returned" /\ op'[t].pc = "returned" /\ enabled(cooldown)) =>
              /\ cooldown.lock = t
              /\ cooldown'.lock = 0
              /\ \A o \in Tasks \ {t} : op[o].pc # "locked" /\ op'[o] = op[o]
    /\ cooldown'.timestamps # cooldown.timestamps =>
          \E t \in Tasks : cooldown.lock = t /\ InBody(t, "mark")
    /\ \A t \in Tasks :
          (cooldown.lock = t /\ cooldown'.lock # t) => op'[t].pc = "returned"

\* C20: at most one caller is inside the locked section at any time, the lock
\* is held exactly by the caller that is inside it, the step of a call that
\* reads the timestamp map (remaining) or writes it (mark) is taken by the
\* holder of the lock while no other caller is inside the section, every
\* change of the map is made by the holder, and the lock is given up only
\* when the holder leaves the section.
C20_MapAccessUnderLock == []C20_State /\ [][C20_Step]_vars

\* one caller is inside the locked section while another one waits for the lock
C20_Witness ==
    \E t \in Tasks, o \in Tasks :
        /\ op[t].pc = "locked" /\ op[t].kind = "mark"
        /\ op[o].pc = "waiting" /\ op[o].kind = "remaining"
        /\ op[o].user = op[t].user

C21_State ==
    \A u \in Users : \A c \in 0..MaxTime :
        LET marked == _mark_cooldown(cooldown.timestamps, u, c) IN
        /\ DOMAIN marked = DOMAIN cooldown.timestamps \cup {u}
        /\ \A v \in DOMAIN cooldown.timestamps \ {u} : marked[v] = cooldown.timestamps[v]

C21_Step ==
    /\ DOMAIN cooldown.timestamps \subseteq DOMAIN cooldown'.timestamps
    /\ \A t \in Tasks :
          /\ InBody(t, "mark") =>
                \A v \in DOMAIN cooldown.timestamps \ {op[t].user} :
                    cooldown'.timestamps[v] = cooldown.timestamps[v]
          /\ (op[t].kind = "remaining" /\ op'[t] # op[t]) =>
                cooldown'.timestamps = cooldown.timestamps
          /\ (op[t].pc = "idle" /\ op'[t].kind = "remaining") =>
                cooldown'.timestamps = cooldown.timestamps

\* C21: no step of a call of remaining changes the timestamp map; the step of
\* mark(u) that writes the map leaves the timestamp of every other user as it
\* was; no step removes a user from the map; and _mark_cooldown applied to any
\* reachable map adds or overwrites the entry of its user only.
C21_MarkTouchesOnlyItsUser == []C21_State /\ [][C21_Step]_vars

\* both users have an entry, and a mark has just overwritten the entry of one
\* of them while the other one's entry is older
C21_Witness ==
    \E t \in Tasks :
        /\ DOMAIN cooldown.timestamps = Users
        /\ op[t].pc = "returned" /\ op[t].kind = "mark" /\ op[t].last >= 0
        /\ cooldown.timestamps[op[t].user] = op[t].current
        /\ \E v \in Users \ {op[t].user} :
              cooldown.timestamps[v] < cooldown.timestamps[op[t].user]

----------------------------------------------------------------------------
(* Properties of the notification functions, checked under SpecNotify *)

\* the positions of the sends of call c over route
SendsOver(c, route) == {i \in 1..Len(c.sends) : c.sends[i][1] = route}

\* the outcome of the send of c over route, "ok" when c made none
OutcomeOver(c, route) ==
    IF SendsOver(c, route) = {} THEN "ok"
    ELSE c.sends[CHOOSE i \in SendsOver(c, route) : TRUE][2]

DeliveredSends(c) == {i \in 1..Len(c.sends) : c.sends[i][2] = "ok"}

Ended(c) == c.status \in {"returned", "raised"}

\* C22: _announce_added sends to the channel first when there is one and never
\* when there is none; it calls the fallback sender only as its first send
\* when the channel is absent or as its second send after the channel send
\* raised, and then always; a successful channel send ends the call with no
\* other send; at most one send of a call succeeds; and the handler's view of
\* the function (delivered or not) agrees with the sends made.
C22_ChannelFirstThenFallback ==
    \A t \in Tasks :
        unit[t].fn = "_announce_added" =>
            LET c == unit[t] IN
            /\ Len(c.sends) <= 2
            /\ Cardinality(SendsOver(c, "channel.send")) <= 1
            /\ Cardinality(SendsOver(c, "fallback_sender")) <= 1
            /\ c.channel => (c.sends = <<>> \/ c.sends[1][1] = "channel.send")
            /\ ~c.channel => SendsOver(c, "channel.send") = {}
            /\ \A i \in SendsOver(c, "fallback_sender") :
                  \/ i = 1 /\ ~c.channel
                  \/ i = 2 /\ c.sends[1] = Sent("channel.send", "error")
            /\ Sent("channel.send", "ok") \in Range(c.sends) =>
                  /\ c.status = "returned"
                  /\ c.sends = <<Sent("channel.send", "ok")>>
            /\ Cardinality(DeliveredSends(c)) <= 1
            /\ (Ended(c) /\ OutcomeOver(c, "channel.send") # "ok") =>
                  SendsOver(c, "fallback_sender") # {}
            /\ (Ended(c) /\ ~c.channel) => SendsOver(c, "fallback_sender") # {}
            /\ Ended(c) =>
                  _announce_added(c.channel, OutcomeOver(c, "channel.send"),
                                  OutcomeOver(c, "fallback_sender")).delivered
                  = (DeliveredSends(c) # {})

\* the channel send raised and the fallback sender delivered the announcement
C22_Witness ==
    \E t \in Tasks :
        /\ unit[t].fn = "_announce_added"
        /\ unit[t].status = "returned"
        /\ unit[t].sends = <<Sent("channel.send", "error"), Sent("fallback_sender", "ok")>>

\* C23: when the fallback sender of _announce_added raises, the call returns
\* normally if the error carries the Unknown interaction signature and raises
\* otherwise; the call raises in no other case; and the handler's view of the
\* function (raised or not) agrees.
C23_FallbackErrorSwallowedIffStale ==
    \A t \in Tasks :
        (unit[t].fn = "_announce_added" /\ Ended(unit[t])) =>
            LET c == unit[t]
                fo == OutcomeOver(c, "fallback_sender")
            IN  /\ (SendsOver(c, "fallback_sender") # {} /\ fo # "ok") =>
                      (c.status = "returned" <=> fo = "unknown_interaction")
                /\ c.status = "raised" <=>
                      (SendsOver(c, "fallback_sender") # {} /\ fo = "error")
                /\ _announce_added(c.channel, OutcomeOver(c, "channel.send"), fo).raised
                   = (c.status = "raised")

\* a call whose fallback error was swallowed and a call whose fallback error
\* propagated
C23_Witness ==
    \E t \in Tasks, o \in Tasks :
        /\ unit[t].fn = "_announce_added" /\ unit[t].status = "returned"
        /\ Sent("fallback_sender", "unknown_interaction") \in Range(unit[t].sends)
        /\ unit[o].fn = "_announce_added" /\ unit[o].status = "raised"
        /\ Sent("fallback_sender", "error") \in Range(unit[o].sends)

\* the outcome of the interaction reply of call c: response.send_message when
\* the response was not done, followup.send otherwise ("ok" when none was made)
ReplyOutcome(c) ==
    IF c.is_done THEN OutcomeOver(c, "followup.send")
    ELSE OutcomeOver(c, "response.send_message")

Replied(c) ==
    SendsOver(c, "followup.send") \cup SendsOver(c, "response.send_message") # {}

\* C24: in _safe_followup_send an interaction reply that raises with the
\* Unknown interaction signature is followed by one channel lookup and, when a
\* channel is found, by one channel send, and the call then returns normally
\* whether the channel was found or not and whether its send succeeded or
\* not; the channel is used in no other case; the call raises exactly when the
\* interaction reply raised without the signature; and the handler's view of
\* the function agrees with the sends made.
C24_StaleReplyFallsBackAndReturns ==
    \A t \in Tasks :
        unit[t].fn = "_safe_followup_send" =>
            LET c == unit[t]
                stale == Replied(c) /\ ReplyOutcome(c) = "unknown_interaction"
                lookups == SendsOver(c, "_resolve_channel_for_interaction")
                found == OutcomeOver(c, "_resolve_channel_for_interaction") = "channel"
            IN  /\ Cardinality(lookups) <= 1
                /\ Cardinality(SendsOver(c, "ch.send")) <= 1
                /\ lookups # {} => stale
                /\ SendsOver(c, "ch.send") # {} => (stale /\ lookups # {} /\ found)
                /\ stale => c.status # "raised"
                /\ (stale /\ Ended(c)) =>
                      /\ c.status = "returned"
                      /\ Cardinality(lookups) = 1
                      /\ Cardinality(SendsOver(c, "ch.send")) = (IF found THEN 1 ELSE 0)
                /\ c.status = "raised" <=> (Replied(c) /\ ReplyOutcome(c) = "error")
                /\ Ended(c) =>
                      _safe_followup_send(c.is_done,
                                          OutcomeOver(c, "edit_original_response"),
                                          ReplyOutcome(c), found,
                                          OutcomeOver(c, "ch.send"))
                      = Outcome(c.status = "raised", DeliveredSends(c) # {})

\* the reply hit a stale handle, the channel send failed too, and the call
\* returned
C24_Witness ==
    \E t \in Tasks :
        /\ unit[t].fn = "_safe_followup_send"
        /\ unit[t].status = "returned"
        /\ unit[t].is_done
        /\ Sent("followup.send", "unknown_interaction") \in Range(unit[t].sends)
        /\ Sent("ch.send", "error") \in Range(unit[t].sends)

----------------------------------------------------------------------------
(* What the invoking user is told, checked under Spec *)

\* the messages of t to the invoking user (all but the public announcements)
UserMsgs(t) == SelectSeq(task[t].msgs, LAMBDA m : m.kind # "announce")

DeliveredUserMsgs(t) ==
    Cardinality({i \in 1..Len(UserMsgs(t)) : UserMsgs(t)[i].delivered})

\* C25 as stated: an invocation that has ended has delivered exactly one
\* message to the invoking user, or none when the interaction reply hit a
\* stale handle and the channel fallback failed as well.
C25_ExactlyOneMessage ==
    \A t \in Tasks :
        task[t].pc = "done" =>
            LET U == UserMsgs(t) IN
            /\ DeliveredUserMsgs(t) <= 1
            /\ DeliveredUserMsgs(t) = 0 =>
                  (U # <<>> /\ ~U[Len(U)].delivered /\ ~U[Len(U)].raised)

\* C25 amended: an invocation that has ended has tried to send one message to
\* the invoking user, or two when the first send raised and the error report
\* followed; at most one of them was delivered; and none was delivered only
\* when the last of them failed, either because the reply hit a stale handle
\* and the channel fallback failed, or because the send of the error report
\* itself raised.
C25_OneMessageUnlessSendsFail ==
    \A t \in Tasks :
        task[t].pc = "done" =>
            LET U == UserMsgs(t) IN
            /\ Len(U) \in {1, 2}
            /\ DeliveredUserMsgs(t) <= 1
            /\ \A i \in 1..(Len(U) - 1) : U[i].raised /\ ~U[i].delivered
            /\ Len(U) = 2 => U[2].kind = "error"
            /\ U[Len(U)].raised => U[Len(U)].kind = "error"
            /\ DeliveredUserMsgs(t) = 1 <=> U[Len(U)].delivered

\* the wait message raised and the error report raised as well: the user got
\* nothing, and no channel fallback was tried
C25_Witness ==
    \E t \in Tasks :
        /\ task[t].pc = "done"
        /\ Len(UserMsgs(t)) = 2
        /\ UserMsgs(t)[1].kind = "wait"
        /\ UserMsgs(t)[2] = Raised(Msg("error", "-", FALSE), TRUE)

\* the last message of t, sent in this step, raised in the handler
SendRaised(t) ==
    /\ Len(task'[t].msgs) = Len(task[t].msgs) + 1
    /\ task'[t].msgs[Len(task'[t].msgs)].raised

C26_State ==
    \A t \in Tasks :
        /\ task[t].pc \in {"idle", "respond", "defer", "call", "announce", "reply",
                           "done", "returned"}
        /\ task[t].pc = "call" => retry[t].status \in {"running", "returned", "raised"}
        /\ task[t].pc = "reply" => task[t].pending # "none"
        /\ task[t].pc = "done" => retry[t].status = "idle" \/ task[t].in_except

C26_Step ==
    \A t \in Tasks :
        /\ (SendRaised(t) /\ task[t].pc = "announce") =>
              /\ task'[t].failures =
                    Append(task[t].failures, <<task[t].vids[task[t].idx], "Exception">>)
              /\ task'[t].pc \in {"call", "reply"}
        /\ (SendRaised(t) /\ task[t].pc # "announce" /\ ~task[t].in_except) =>
              /\ task'[t].pc = "reply"
              /\ task'[t].pending = "error"
              /\ task'[t].in_except
        /\ (SendRaised(t) /\ task[t].in_except) => task'[t].pc = "done"
        /\ (task[t].pc = "defer" /\ task'[t].pc # "defer") =>
              task'[t].pc \in {"call", "reply"}
        /\ (task[t].pc = "call" /\ retry[t].status = "raised" /\ task'[t] # task[t]) =>
              task'[t].pc \in {"call", "reply"}

\* C26: the handler is never left by an exception: a send that raises while
\* an announcement is made is recorded as a failure of the identifier and the
\* loop goes on; any other send that raises outside the outermost except
\* clause is followed by the error report; a send that raises inside that
\* clause ends the handler normally; a failed defer is followed by the error
\* report; a catalog call that raised is followed by the next call or by a
\* reply; and the handler is never stopped in the middle.
C26_NoExceptionEscapes == []C26_State /\ [][C26_Step]_vars

\* the summary raised and the error report raised as well, after catalog
\* calls had failed, and the handler ended normally
C26_Witness ==
    \E t \in Tasks :
        /\ task[t].pc = "done"
        /\ task[t].failures # <<>>
        /\ Len(UserMsgs(t)) = 2
        /\ UserMsgs(t)[1] = Raised(Msg("summary", "-", FALSE), TRUE)
        /\ UserMsgs(t)[2] = Raised(Msg("error", "-", FALSE), TRUE)

----------------------------------------------------------------------------
(* Invocations from another channel, checked under Spec *)

C27_State ==
    \A t \in Tasks :
        task[t].gate = "redirect" =>
            /\ task[t].calls = {}
            /\ task[t].inserted = {}
            /\ task[t].vids = <<>>
            /\ task[t].last = {}
            /\ retry[t].status = "idle"
            /\ task[t].pc \in {"respond", "reply", "done"}
            /\ KindCount(t, "redirect") = (IF task[t].pc = "respond" THEN 0 ELSE 1)
            /\ \A k \in {"wait", "novalid", "summary", "reauth", "announce"} :
                  KindCount(t, k) = 0 /\ task[t].pending # k

C27_Step ==
    \A t \in Tasks :
        /\ (task[t].pc = "idle" /\ task'[t].gate = "redirect") =>
              /\ now' = now
              /\ task'[t].pc = "respond"
              /\ task'[t].pending = "redirect"
        /\ task'[t].gate = "redirect" =>
              /\ _user_cooldowns' = _user_cooldowns
              /\ playlist' = playlist
              /\ now' = now

\* C27: an invocation from another channel than the configured one sends the
\* redirect message once (and, if that send raises, the error report) and
\* nothing else: the step that starts it does not read the clock, no step of
\* it changes the cooldown map or the playlist, it never sends the wait
\* message even when the user's cooldown is running, it extracts no
\* identifier and issues no catalog call.
C27_WrongChannelOnlyRedirects == []C27_State /\ [][C27_Step]_vars

\* a user whose cooldown is running was redirected
C27_Witness ==
    \E t \in Tasks :
        /\ task[t].gate = "redirect"
        /\ task[t].pc = "done"
        /\ task[t].msgs = <<Msg("redirect", "-", TRUE)>>
        /\ task[t].url # <<>>
        /\ PositiveRemaining(task[t].user, now)

(***************************************************************************)
(* Identifier extraction from free text: src/bot/youtube/urls.py.          *)
(* A text is a sequence of characters, each a one-character string; the    *)
(* regular expressions, the URL parser and the query parser are computed   *)
(* character by character, as the library computes them.                   *)
(***************************************************************************)

\* number of links in a text
MaxLinks == 2

\* _ID_RE: the {11} of the identifier pattern
IdLength == 11

LowerLetters ==
    {"a", "b", "c", "d", "e", "f", "g", "h", "i", "j", "k", "l", "m",
     "n", "o", "p", "q", "r", "s", "t", "u", "v", "w", "x", "y", "z"}

UpperLetters ==
    {"A", "B", "C", "D", "E", "F", "G", "H", "I", "J", "K", "L", "M",
     "N", "O", "P", "Q", "R", "S", "T", "U", "V", "W", "X", "Y", "Z"}

Digits == {"0", "1", "2", "3", "4", "5", "6", "7", "8", "9"}

\* the character class [A-Za-z0-9_-] of _ID_RE
IdAlphabet == UpperLetters \cup LowerLetters \cup Digits \cup {"_", "-"}

\* the regular expressions' \s, for the characters a text is made of
Whitespace == {" ", "\n", "\r", "\t"}

\* the complement of the class [^\s<>] that both candidate patterns end on
UrlStop == Whitespace \cup {"<", ">"}

\* str.lower() on one character, for the capitals a text is made of
LowerChar(c) ==
    CASE c = "A" -> "a"
      [] c = "B" -> "b"
      [] OTHER -> c

lower(s) == [i \in 1..Len(s) |-> LowerChar(s[i])]

\* s[i:].startswith(lit), i counted from 1
startswith(s, i, lit) ==
    /\ i + Len(lit) - 1 <= Len(s)
    /\ \A k \in 1..Len(lit) : s[i + k - 1] = lit[k]

\* the same comparison under re.IGNORECASE (lit is lower case)
startswithI(s, i, lit) ==
    /\ i + Len(lit) - 1 <= Len(s)
    /\ \A k \in 1..Len(lit) : LowerChar(s[i + k - 1]) = lit[k]

endswith(s, lit) ==
    /\ Len(lit) <= Len(s)
    /\ \A k \in 1..Len(lit) : s[Len(s) - Len(lit) + k] = lit[k]

\* lit in s
contains(s, lit) == \E i \in 1..Len(s) : startswith(s, i, lit)

\* index of the first character of s at or after i that is in chars,
\* Len(s) + 1 when there is none
RECURSIVE find(_, _, _)
find(s, i, chars) ==
    IF i > Len(s) \/ s[i] \in chars THEN i ELSE find(s, i + 1, chars)

HTTP == <<"h", "t", "t", "p", ":", "/", "/">>
HTTPS == <<"h", "t", "t", "p", "s", ":", "/", "/">>
SchemeSep == <<":", "/", "/">>
WWW == <<"w", "w", "w", ".">>
YOUTUBE_COM == <<"y", "o", "u", "t", "u", "b", "e", ".", "c", "o", "m">>
YOUTU_BE == <<"y", "o", "u", "t", "u", ".", "b", "e">>

\* length of the match of  https?://  at i, 0 when it does not match
SchemeAt(text, i) ==
    IF startswith(text, i, HTTPS) THEN Len(HTTPS)
    ELSE IF startswith(text, i, HTTP) THEN Len(HTTP)
    ELSE 0

\* length of the match of  (?:www\.)?(?:youtube\.com|youtu\.be)/  at i under
\* re.IGNORECASE, 0 when it does not match
BareAt(text, i) ==
    LET w == IF startswithI(text, i, WWW) THEN Len(WWW) ELSE 0
        h == IF startswithI(text, i + w, YOUTUBE_COM) THEN Len(YOUTUBE_COM)
             ELSE IF startswithI(text, i + w, YOUTU_BE) THEN Len(YOUTU_BE)
             ELSE 0
    IN  IF h > 0 /\ startswith(text, i + w + h, <<"/">>) THEN w + h + 1 ELSE 0

\* re.findall(r"https?://[^\s<>]+", text): leftmost matches that do not
\* overlap, each running to the next character of UrlStop
RECURSIVE SchemeMatches(_, _)
SchemeMatches(text, i) ==
    IF i > Len(text) THEN <<>>
    ELSE LET n == SchemeAt(text, i)
             e == find(text, i + n, UrlStop) - 1
         IN  IF n > 0 /\ e >= i + n
             THEN <<SubSeq(text, i, e)>> \o SchemeMatches(text, e + 1)
             ELSE SchemeMatches(text, i + 1)

\* re.findall of the scheme-less pattern, the same way
RECURSIVE BareMatches(_, _)
BareMatches(text, i) ==
    IF i > Len(text) THEN <<>>
    ELSE LET n == BareAt(text, i)
             e == find(text, i + n, UrlStop) - 1
         IN  IF n > 0 /\ e >= i + n
             THEN <<SubSeq(text, i, e)>> \o BareMatches(text, e + 1)
             ELSE BareMatches(text, i + 1)

\* the characters _clean_url_token strips from the right
TrailingPunctuation == {")", "]", ",", ".", ">", "\n", "\r", "\t", " "}

RECURSIVE _clean_url_token(_)
_clean_url_token(tok) ==
    IF tok # <<>> /\ tok[Len(tok)] \in TrailingPunctuation
    THEN _clean_url_token(SubSeq(tok, 1, Len(tok) - 1))
    ELSE tok

\* the characters urlsplit accepts in a scheme
SchemeChars == UpperLetters \cup LowerLetters \cup Digits \cup {"+", "-", "."}

\* urlparse(url), for a url without whitespace: the scheme is cut at the
\* first colon when everything before it is scheme characters, the network
\* location runs from // to the first of / ? #, then the fragment and the
\* query are cut off the path; one bracket without the other in the network
\* location raises ValueError("Invalid IPv6 URL")
urlparse(url) ==
    LET i == find(url, 1, {":"})
        hasScheme == /\ 1 < i
                     /\ i <= Len(url)
                     /\ url[1] \in UpperLetters \cup LowerLetters
                     /\ \A k \in 1..(i - 1) : url[k] \in SchemeChars
        rest == IF hasScheme THEN SubSeq(url, i + 1, Len(url)) ELSE url
        hasNetloc == startswith(rest, 1, <<"/", "/">>)
        d == IF hasNetloc THEN find(rest, 3, {"/", "?", "#"}) ELSE 1
        netloc == IF hasNetloc THEN SubSeq(rest, 3, d - 1) ELSE <<>>
        after == SubSeq(rest, d, Len(rest))
        f == find(after, 1, {"#"})
        noFragment == SubSeq(after, 1, f - 1)
        q == find(noFragment, 1, {"?"})
    IN  [raised |-> ("[" \in Range(netloc)) # ("]" \in Range(netloc)),
         netloc |-> netloc,
         path   |-> SubSeq(noFragment, 1, q - 1),
         query  |-> SubSeq(noFragment, q + 1, Len(noFragment))]

\* index of the last occurrence of c in s at or before i, 0 when none
RECURSIVE rfind(_, _, _)
rfind(s, i, c) ==
    IF i = 0 \/ s[i] = c THEN i ELSE rfind(s, i - 1, c)

\* the hostname property of the parse result, for a network location without
\* brackets: what follows the last @, up to the first colon, lower-cased up
\* to a % ; the empty sequence stands for None
hostname(netloc) ==
    LET a == rfind(netloc, Len(netloc), "@")
        hostinfo == SubSeq(netloc, a + 1, Len(netloc))
        c == find(hostinfo, 1, {":"})
        name == SubSeq(hostinfo, 1, c - 1)
        z == find(name, 1, {"%"})
    IN  lower(SubSeq(name, 1, z - 1)) \o SubSeq(name, z, Len(name))

\* s.split(c)
RECURSIVE split(_, _)
split(s, c) ==
    LET i == find(s, 1, {c})
    IN  IF i > Len(s) THEN <<s>>
        ELSE <<SubSeq(s, 1, i - 1)>> \o split(SubSeq(s, i + 1, Len(s)), c)

\* s.lstrip(c)
RECURSIVE lstrip(_, _)
lstrip(s, c) ==
    IF s # <<>> /\ s[1] = c THEN lstrip(SubSeq(s, 2, Len(s)), c) ELSE s

\* the percent escapes a text is made of, and the character each stands for
PercentEscapes ==
    {<<"0", "A", "\n">>, <<"2", "0", " ">>, <<"2", "C", ",">>, <<"4", "1", "A">>}

\* urllib.parse.unquote after  replace('+', ' ') , as parse_qsl applies them
RECURSIVE unquote(_)
unquote(s) ==
    IF s = <<>> THEN <<>>
    ELSE IF /\ s[1] = "%"
            /\ Len(s) >= 3
            /\ \E e \in PercentEscapes : e[1] = s[2] /\ e[2] = s[3]
         THEN LET e == CHOOSE x \in PercentEscapes : x[1] = s[2] /\ x[2] = s[3]
              IN  <<e[3]>> \o unquote(SubSeq(s, 4, Len(s)))
         ELSE <<IF s[1] = "+" THEN " " ELSE s[1]>> \o unquote(SubSeq(s, 2, Len(s)))

\* parse_qs(query).get("v", [None])[0]: the decoded value of the first field
\* named v whose value is not blank; the empty sequence stands for None
RECURSIVE FirstV(_, _)
FirstV(fields, k) ==
    IF k > Len(fields) THEN <<>>
    ELSE LET nv == fields[k]
             e == find(nv, 1, {"="})
         IN  IF /\ e < Len(nv)
                /\ unquote(SubSeq(nv, 1, e - 1)) = <<"v">>
             THEN unquote(SubSeq(nv, e + 1, Len(nv)))
             ELSE FirstV(fields, k + 1)

parse_qs_v(query) == FirstV(split(query, "&"), 1)

\* _ID_RE.match(vid): IdLength characters of the class, then the end of the
\* string; Python's $ also matches just before a newline that ends the string
_ID_RE(vid) ==
    /\ \/ Len(vid) = IdLength
       \/ Len(vid) = IdLength + 1 /\ vid[Len(vid)] = "\n"
    /\ \A k \in 1..IdLength : vid[k] \in IdAlphabet

\* vid if _ID_RE.match(vid or "") else None
IdOrNone(vid) == IF _ID_RE(vid) THEN vid ELSE <<>>

WATCH == <<"/", "w", "a", "t", "c", "h">>

PathPrefixes ==
    << <<"/", "s", "h", "o", "r", "t", "s", "/">>,
       <<"/", "e", "m", "b", "e", "d", "/">>,
       <<"/", "v", "/">>,
       <<"/", "l", "i", "v", "e", "/">> >>

\* the loop over the prefixes: the first path segment after the first prefix
\* the path starts with, else the fallback on any v parameter
RECURSIVE FromPrefixes(_, _)
FromPrefixes(p, k) ==
    IF k > Len(PathPrefixes) THEN IdOrNone(parse_qs_v(p.query))
    ELSE IF startswith(p.path, 1, PathPrefixes[k])
         THEN IdOrNone(split(SubSeq(p.path, Len(PathPrefixes[k]) + 1, Len(p.path)), "/")[1])
         ELSE FromPrefixes(p, k + 1)

\* the identifier of one url, the empty sequence for None; raised when
\* urlparse raises
_extract_video_id_from_url(url) ==
    LET p == urlparse(url)
        host == lower(hostname(p.netloc))
    IN  IF p.raised THEN [raised |-> TRUE, vid |-> <<>>]
        ELSE [raised |-> FALSE,
              vid |->
                 IF host = <<>> THEN <<>>
                 ELSE IF ~(\/ endswith(host, YOUTUBE_COM)
                           \/ host = YOUTU_BE
                           \/ endswith(host, YOUTU_BE))
                      THEN <<>>
                 ELSE IF endswith(host, YOUTU_BE)
                      THEN IdOrNone(split(lstrip(p.path, "/"), "/")[1])
                 ELSE IF p.path = WATCH
                      THEN IdOrNone(parse_qs_v(p.query))
                 ELSE FromPrefixes(p, 1)]

\* the candidates in the order the loop visits them: every scheme-qualified
\* match, then every scheme-less match
Candidates(text) == SchemeMatches(text, 1) \o BareMatches(text, 1)

\* the loop over the candidates from the k-th on, out being the list so far
RECURSIVE Collect(_, _, _)
Collect(cands, k, out) ==
    IF k > Len(cands) THEN [raised |-> FALSE, out |-> out]
    ELSE LET cleaned == _clean_url_token(cands[k])
             url == IF contains(cleaned, SchemeSep) THEN cleaned
                    ELSE HTTPS \o cleaned
             r == _extract_video_id_from_url(url)
         IN  IF r.raised THEN [raised |-> TRUE, out |-> <<>>]
             ELSE IF r.vid # <<>> /\ r.vid \notin Range(out)
                  THEN Collect(cands, k + 1, Append(out, r.vid))
                  ELSE Collect(cands, k + 1, out)

canonical_video_ids_from_text(text) == Collect(Candidates(text), 1, <<>>)

(***************************************************************************)
(* Texts the extraction is observed on: up to MaxLinks links, each of one  *)
(* of the URL shapes, with or without a scheme, joined by a separator.     *)
(***************************************************************************)

Shapes == {"short", "watch", "shorts", "embed", "v", "live"}

Separators == {"space", "comma", "commaspace"}

SeparatorChars(sep) ==
    CASE sep = "space" -> <<" ">>
      [] sep = "comma" -> <<",">>
      [] sep = "commaspace" -> <<",", " ">>

Repeat(c, n) == [i \in 1..n |-> c]

\* the characters after the shape's prefix: two well-formed identifiers, one
\* a character short, and a well-formed one followed by an encoded newline
IdChars(id) ==
    CASE id = "A" -> Repeat("A", IdLength)
      [] id = "B" -> Repeat("B", IdLength)
      [] id = "short" -> Repeat("A", IdLength - 1)
      [] id = "newline" -> Repeat("A", IdLength) \o <<"%", "0", "A">>

ShapeChars(shape) ==
    CASE shape = "short" -> YOUTU_BE \o <<"/">>
      [] shape = "watch" -> WWW \o YOUTUBE_COM \o WATCH \o <<"?", "v", "=">>
      [] shape = "shorts" -> WWW \o YOUTUBE_COM \o PathPrefixes[1]
      [] shape = "embed" -> WWW \o YOUTUBE_COM \o PathPrefixes[2]
      [] shape = "v" -> WWW \o YOUTUBE_COM \o PathPrefixes[3]
      [] shape = "live" -> WWW \o YOUTUBE_COM \o PathPrefixes[4]
      [] shape = "bracket" -> <<"[">> \o YOUTU_BE \o <<"/">>
      [] shape = "lookalike" ->
            <<"n", "o", "t">> \o YOUTUBE_COM \o WATCH \o <<"?", "v", "=">>

\* links with a well-formed identifier: one identifier in every shape, a
\* second one in the short shape, each with and without a scheme
ValidLinks ==
    [scheme : BOOLEAN, shape : Shapes, id : {"A"}]
        \cup [scheme : BOOLEAN, shape : {"short"}, id : {"B"}]

\* links nothing should come out of
OtherLinks ==
    {[scheme |-> TRUE, shape |-> "short", id |-> "short"],
     [scheme |-> TRUE, shape |-> "watch", id |-> "newline"],
     [scheme |-> TRUE, shape |-> "bracket", id |-> "A"],
     [scheme |-> TRUE, shape |-> "lookalike", id |-> "A"]}

Links == ValidLinks \cup OtherLinks

LinkChars(link) ==
    (IF link.scheme THEN HTTPS ELSE <<>>) \o ShapeChars(link.shape) \o IdChars(link.id)

RECURSIVE TextFrom(_, _, _)
TextFrom(links, seps, k) ==
    IF k > Len(links) THEN <<>>
    ELSE LinkChars(links[k])
         \o (IF k < Len(links) THEN SeparatorChars(seps[k]) ELSE <<>>)
         \o TextFrom(links, seps, k + 1)

Text(links, seps) == TextFrom(links, seps, 1)

\* the function is pure: one caller observes it
ExtractCaller == CHOOSE t \in Tasks : \A o \in Tasks : t <= o

\* canonical_video_ids_from_text is called on a text
ExtractCall ==
    /\ unit[ExtractCaller].status = "idle"
    /\ \E n \in 1..MaxLinks :
         \E links \in [1..n -> Links], seps \in [1..(n - 1) -> Separators] :
            unit' = [unit EXCEPT ![ExtractCaller] =
                        [fn     |-> "canonical_video_ids_from_text",
                         status |-> "running",
                         links  |-> links,
                         seps   |-> seps,
                         text   |-> Text(links, seps),
                         out    |-> <<>>]]
    /\ UNCHANGED <<now, _user_cooldowns, playlist, task, retry, funcLog, trackerVars>>

\* it returns its list, or the exception of urlparse leaves it
ExtractReturn ==
    /\ unit[ExtractCaller].status = "running"
    /\ LET r == canonical_video_ids_from_text(unit[ExtractCaller].text)
       IN  unit' = [unit EXCEPT ![ExtractCaller].status =
                                    IF r.raised THEN "raised" ELSE "returned",
                                ![ExtractCaller].out = r.out]
    /\ UNCHANGED <<now, _user_cooldowns, playlist, task, retry, funcLog, trackerVars>>

InitExtract == InitNotify

NextExtract == ExtractCall \/ ExtractReturn

SpecExtract == InitExtract /\ [][NextExtract]_vars

(***************************************************************************)
(* C28.  For every text, canonical_video_ids_from_text returns each        *)
(* identifier at most once, in the order of first occurrence in the text,  *)
(* whatever mix of scheme-qualified and scheme-less links and of shapes    *)
(* the text contains.  Stated on texts of well-formed links separated by   *)
(* whitespace: the list returned is the identifiers of the links, in the   *)
(* order of the links, each kept at its first occurrence.                  *)
(***************************************************************************)

Extracted(c) == c.status \in {"returned", "raised"}

LinkIds(links) == [k \in 1..Len(links) |-> IdChars(links[k].id)]

RECURSIVE FirstOccurrencesFrom(_, _, _)
FirstOccurrencesFrom(seq, k, out) ==
    IF k > Len(seq) THEN out
    ELSE FirstOccurrencesFrom(seq, k + 1,
             IF seq[k] \in Range(out) THEN out ELSE Append(out, seq[k]))

FirstOccurrences(seq) == FirstOccurrencesFrom(seq, 1, <<>>)

C28_FirstOccurrenceOrder ==
    LET c == unit[ExtractCaller]
    IN  (/\ Extracted(c)
         /\ Range(c.links) \subseteq ValidLinks
         /\ Range(c.seps) \subseteq {"space"})
        => /\ c.status = "returned"
           /\ c.out = FirstOccurrences(LinkIds(c.links))

(***************************************************************************)
(* C29.  For a text of several valid links separated by commas, with or    *)
(* without whitespace after each comma, canonical_video_ids_from_text      *)
(* returns what it returns for the same links separated by whitespace.     *)
(***************************************************************************)

C29_CommasLikeWhitespace ==
    LET c == unit[ExtractCaller]
    IN  (/\ Extracted(c)
         /\ Range(c.links) \subseteq ValidLinks
         /\ Len(c.links) > 1
         /\ Range(c.seps) \subseteq {"comma", "commaspace"})
        => /\ c.status = "returned"
           /\ c.out = canonical_video_ids_from_text(
                          Text(c.links, [k \in DOMAIN c.seps |-> "space"])).out

(***************************************************************************)
(* C30.  Every element canonical_video_ids_from_text returns is exactly    *)
(* IdLength characters over A-Z a-z 0-9 _ - , and a link whose token does  *)
(* not have that form adds nothing to the list and raises no error.        *)
(***************************************************************************)

C30_ElementsAreIdentifiers ==
    LET c == unit[ExtractCaller]
    IN  Extracted(c)
        => /\ c.status = "returned"
           /\ \A k \in 1..Len(c.out) :
                 /\ Len(c.out[k]) = IdLength
                 /\ Range(c.out[k]) \subseteq IdAlphabet
----------------------------------------------------------------------------
(* The catalog operations on their own: bot/youtube/__init__.py            *)
(* video_exists, get_video_metadata and add_to_playlist, request by        *)
(* request, each awaited through _call_with_retry by one caller.           *)

\* number of items of the playlist the operations are observed on
MaxItems == 2

\* getattr(getattr(e, "resp", None), "status", None) of an HttpError; 0
\* stands for None
HttpStatuses == {0, 400, 401, 403, 404, 500}

\* one .execute(): a response (duration: the contentDetails duration of the
\* item of videos().list, in seconds) or an HttpError
Response(duration) == [kind |-> "response", status |-> 200, duration |-> duration]
HttpError(status) == [kind |-> "HttpError", status |-> status, duration |-> 0]

ApiOutcomes(fn) ==
    {Response(d) : d \in IF fn = "get_video_metadata" THEN Durations ELSE {0}}
        \cup {HttpError(s) : s \in HttpStatuses}

\* the text of the RuntimeError each operation wraps an HttpError in
ApiErrorMessage(fn) ==
    CASE fn = "video_exists" -> "YouTube API error checking playlist"
      [] fn = "get_video_metadata" -> "YouTube API error fetching video details"
      [] fn = "add_to_playlist" -> "YouTube API error adding video"

MutantHttpErrorOnly401(fn, status) ==
    IF status = 401
    THEN [type |-> "CredentialsExpiredError", message |-> "_reauth_hint()"]
    ELSE [type |-> "RuntimeError", message |-> ApiErrorMessage(fn)]

\* the except HttpError clause of the three operations: lines 168-172,
\* 207-211 and 290-294
HttpErrorRaised(fn, status) ==
    IF status \in {401, 403}
    THEN [type |-> "CredentialsExpiredError", message |-> "_reauth_hint()"]
    ELSE [type |-> "RuntimeError", message |-> ApiErrorMessage(fn)]

\* how the last call of the operation ended: the status of the HttpError
\* (-1: none), the exception raised ("None": it returned value)
NoAttempt == [http |-> -1, exc |-> "None", message |-> "none", value |-> -1]

\* a caller awaits _call_with_retry(fn, vid, ...); exists: videos().list has
\* an item for vid.  page_token: the local of video_exists (0: None);
\* requests: the page tokens the call in progress has requested; ended: the
\* call has returned or raised and the next request starts a new call
CatalogEntry(fn, vid, exists) ==
    [fn |-> fn, status |-> "running", vid |-> vid, exists |-> exists,
     page_token |-> 0, requests |-> <<>>, ended |-> FALSE,
     http_errors |-> 0, last |-> NoAttempt]

MutantCatalogStepNotFoundReturns(c, pl, o) ==
    LET token == IF c.ended THEN 0 ELSE c.page_token
        base == [c EXCEPT !.page_token = token, !.ended = FALSE,
                          !.requests = (IF c.ended THEN <<>> ELSE @) \o <<token>>]
        End(http, exc, message, value) ==
            [base EXCEPT !.ended = TRUE,
                         !.http_errors = IF http >= 0 THEN @ + 1 ELSE @,
                         !.last = [http |-> http, exc |-> exc,
                                   message |-> message, value |-> value]]
    IN  IF o.kind = "HttpError"
        THEN LET e == HttpErrorRaised(c.fn, o.status)
             IN  End(o.status, e.type, e.message, -1)
        ELSE CASE c.fn = "video_exists" ->
                    IF c.vid \in Range(PageItems(pl, token))
                    THEN End(-1, "None", "none", 1)
                    ELSE IF NextPageToken(pl, token) = 0
                    THEN End(-1, "None", "none", 0)
                    ELSE [base EXCEPT !.page_token = NextPageToken(pl, token)]
               [] c.fn = "get_video_metadata" ->
                    End(-1, "None", "none", o.duration)
               [] c.fn = "add_to_playlist" ->
                    End(-1, "None", "none", 0)

MutantCatalogStepFirstPageOnly(c, pl, o) ==
    LET token == IF c.ended THEN 0 ELSE c.page_token
        base == [c EXCEPT !.page_token = token, !.ended = FALSE,
                          !.requests = (IF c.ended THEN <<>> ELSE @) \o <<token>>]
        End(http, exc, message, value) ==
            [base EXCEPT !.ended = TRUE,
                         !.http_errors = IF http >= 0 THEN @ + 1 ELSE @,
                         !.last = [http |-> http, exc |-> exc,
                                   message |-> message, value |-> value]]
    IN  IF o.kind = "HttpError"
        THEN LET e == HttpErrorRaised(c.fn, o.status)
             IN  End(o.status, e.type, e.message, -1)
        ELSE CASE c.fn = "video_exists" ->
                    IF c.vid \in Range(PageItems(pl, token))
                    THEN End(-1, "None", "none", 1)
                    ELSE End(-1, "None", "none", 0)
               [] c.fn = "get_video_metadata" ->
                    IF ~c.exists
                    THEN End(-1, "RuntimeError", "not found or has no metadata", -1)
                    ELSE End(-1, "None", "none", o.duration)
               [] c.fn = "add_to_playlist" ->
                    End(-1, "None", "none", 0)

\* one .execute() of the operation and the code that follows it up to the
\* next request, the return or the raise: lines 153-182, 191-211, 283-320
CatalogStep(c, pl, o) ==
    LET token == IF c.ended THEN 0 ELSE c.page_token
        base == [c EXCEPT !.page_token = token, !.ended = FALSE,
                          !.requests = (IF c.ended THEN <<>> ELSE @) \o <<token>>]
        End(http, exc, message, value) ==
            [base EXCEPT !.ended = TRUE,
                         !.http_errors = IF http >= 0 THEN @ + 1 ELSE @,
                         !.last = [http |-> http, exc |-> exc,
                                   message |-> message, value |-> value]]
    IN  IF o.kind = "HttpError"
        THEN LET e == HttpErrorRaised(c.fn, o.status)
             IN  End(o.status, e.type, e.message, -1)
        ELSE CASE c.fn = "video_exists" ->
                    IF c.vid \in Range(PageItems(pl, token))
                    THEN End(-1, "None", "none", 1)
                    ELSE IF NextPageToken(pl, token) = 0
                    THEN End(-1, "None", "none", 0)
                    ELSE [base EXCEPT !.page_token = NextPageToken(pl, token)]
               [] c.fn = "get_video_metadata" ->
                    IF ~c.exists
                    THEN End(-1, "RuntimeError", "not found or has no metadata", -1)
                    ELSE End(-1, "None", "none", o.duration)
               [] c.fn = "add_to_playlist" ->
                    End(-1, "None", "none", 0)

CatalogFunctions == {"video_exists", "get_video_metadata", "add_to_playlist"}

\* the playlists the operations are observed on; a video may be in a playlist
\* more than once
CatalogPlaylists == UNION {[1..n -> VideoIds] : n \in 0..MaxItems}

\* one caller observes the operations
CatalogCaller == CHOOSE t \in Tasks : \A o \in Tasks : t <= o

\* the caller awaits _call_with_retry(fn, vid, ...)
CatalogCall ==
    /\ unit[CatalogCaller].status = "idle"
    /\ \E fn \in CatalogFunctions, vid \in VideoIds, exists \in BOOLEAN :
          /\ unit' = [unit EXCEPT ![CatalogCaller] = CatalogEntry(fn, vid, exists)]
          /\ retry' = [retry EXCEPT ![CatalogCaller] = RetryEntry(fn)]
    /\ UNCHANGED <<now, _user_cooldowns, playlist, task, funcLog, trackerVars>>

\* the operation makes its next request, in the attempt in progress or in the
\* next attempt of the executor
CatalogRequest ==
    /\ unit[CatalogCaller].status = "running"
    /\ \E o \in ApiOutcomes(unit[CatalogCaller].fn) :
          LET c == CatalogStep(unit[CatalogCaller], playlist, o)
              outcome == IF c.last.exc = "None" THEN Returns(c.last.value)
                         ELSE Raises(c.last.exc)
              r == IF c.ended THEN _call_with_retry(retry[CatalogCaller], outcome)
                   ELSE retry[CatalogCaller]
          IN  /\ retry' = [retry EXCEPT ![CatalogCaller] = r]
              /\ funcLog' = [funcLog EXCEPT ![CatalogCaller] =
                                IF c.ended THEN Append(@, outcome) ELSE @]
              /\ unit' = [unit EXCEPT ![CatalogCaller] =
                             [c EXCEPT !.status = IF r.status = "running"
                                                  THEN "running" ELSE "finished"]]
              /\ playlist' = IF c.fn = "add_to_playlist" /\ o.kind = "response"
                             THEN Append(playlist, c.vid) ELSE playlist
    /\ UNCHANGED <<now, _user_cooldowns, task, trackerVars>>

InitCatalog ==
    /\ now = 0
    /\ _user_cooldowns = <<>>
    /\ playlist \in CatalogPlaylists
    /\ task = [t \in Tasks |-> IdleTask]
    /\ retry = [t \in Tasks |-> RetryIdle]
    /\ funcLog = [t \in Tasks |-> <<>>]
    /\ cooldown = IdleTracker
    /\ op = [t \in Tasks |-> IdleOp]
    /\ unit = [t \in Tasks |-> NoCall]

NextCatalog == CatalogCall \/ CatalogRequest

SpecCatalog == InitCatalog /\ [][NextCatalog]_vars
----------------------------------------------------------------------------
(***************************************************************************)
(* C31.  In each of the three catalog operations an HttpError with status  *)
(* 401 or 403 is raised to the caller as CredentialsExpiredError carrying  *)
(* the re-authentication instruction, and an HttpError with any other      *)
(* status is raised as a RuntimeError, which the retry executor retries:   *)
(* after it the executor goes on unless it was its last attempt.           *)
(***************************************************************************)

C31_HttpErrorsClassified ==
    LET c == unit[CatalogCaller]
        r == retry[CatalogCaller]
        log == funcLog[CatalogCaller]
    IN  (c.status \in {"running", "finished"} /\ c.ended /\ c.last.http >= 0)
        => /\ log # <<>> /\ log[Len(log)] = Raises(c.last.exc)
           /\ c.last.http \in {401, 403}
                 => /\ c.last.exc = "CredentialsExpiredError"
                    /\ c.last.message = "_reauth_hint()"
                    /\ r.status = "raised"
                    /\ r.raised.type = "CredentialsExpiredError"
           /\ c.last.http \notin {401, 403}
                 => /\ c.last.exc = "RuntimeError"
                    /\ c.last.message = ApiErrorMessage(c.fn)
                    /\ \/ r.status = "running"
                       \/ /\ r.status = "raised"
                          /\ r.attempt = Len(_RETRY_WAIT_SECONDS)

C31_Witness ==
    LET c == unit[CatalogCaller]
    IN  /\ c.status = "finished"
        /\ c.fn = "add_to_playlist"
        /\ c.last.http = 403
        /\ c.http_errors = 3
        /\ retry[CatalogCaller].attempt = 3
----------------------------------------------------------------------------
(***************************************************************************)
(* C32.  video_exists requests the pages of the playlist in order, each at *)
(* most once; it returns True at the first page that holds the identifier, *)
(* without requesting a later page, and returns False exactly when it has  *)
(* reached a page without a next-page token and no requested page held the *)
(* identifier.                                                             *)
(***************************************************************************)

\* the k-th page the call in progress requested holds the identifier
PageHas(c, k) == c.vid \in Range(PageItems(playlist, c.requests[k]))

\* the last request of the call was answered with a response
Answered(c) == ~(c.ended /\ c.last.http >= 0)

ReturnedValue(c, v) == c.ended /\ c.last.exc = "None" /\ c.last.value = v

C32_PagesInOrderUntilFound ==
    LET c == unit[CatalogCaller]
        n == Len(c.requests)
    IN  (c.status \in {"running", "finished"} /\ c.fn = "video_exists" /\ n > 0)
        => /\ \A k \in 1..n :
                 c.requests[k] = IF k = 1 THEN 0
                                 ELSE NextPageToken(playlist, c.requests[k - 1])
           /\ \A j, k \in 1..n : j < k => c.requests[j] < c.requests[k]
           /\ \A k \in 1..(n - 1) :
                 ~PageHas(c, k) /\ NextPageToken(playlist, c.requests[k]) # 0
           /\ ReturnedValue(c, 1) <=> (Answered(c) /\ PageHas(c, n))
           /\ ReturnedValue(c, 0)
                 <=> /\ Answered(c)
                     /\ ~PageHas(c, n)
                     /\ NextPageToken(playlist, c.requests[n]) = 0
           /\ (c.ended /\ c.last.exc = "None")
                 => c.last.value = video_exists(c.vid, playlist)

\* the identifier was found on the second page
C32_Witness ==
    LET c == unit[CatalogCaller]
    IN  /\ c.status = "finished"
        /\ c.fn = "video_exists"
        /\ ReturnedValue(c, 1)
        /\ Len(c.requests) = 2

\* two pages were requested and none held the identifier
C32_WitnessNotFound ==
    LET c == unit[CatalogCaller]
    IN  /\ c.status = "finished"
        /\ c.fn = "video_exists"
        /\ ReturnedValue(c, 0)
        /\ Len(c.requests) = 2
----------------------------------------------------------------------------
(***************************************************************************)
(* C33.  Rendering the list canonical_video_ids_from_text returned as      *)
(* canonical short links separated by whitespace and extracting again      *)
(* gives the same identifiers in the same order.                           *)
(***************************************************************************)

\* https://youtu.be/<id> for each identifier, separated by one space
RECURSIVE CanonicalTextFrom(_, _)
CanonicalTextFrom(ids, k) ==
    IF k > Len(ids) THEN <<>>
    ELSE HTTPS \o YOUTU_BE \o <<"/">> \o ids[k]
         \o (IF k < Len(ids) THEN <<" ">> ELSE <<>>)
         \o CanonicalTextFrom(ids, k + 1)

C33_ExtractionIdempotent ==
    LET c == unit[ExtractCaller]
        again == canonical_video_ids_from_text(CanonicalTextFrom(c.out, 1))
    IN  c.status = "returned" => ~again.raised /\ again.out = c.out
----------------------------------------------------------------------------
(* The passive listener (on_message of bot.main): its code is not among    *)
(* the sources; it is modelled from section 6 of the specification (a      *)
(* listener on a configured channel, gated by a configured keyword) and    *)
(* from the calls tests/test_discord_on_message.py observes.               *)

MutantListenerGateChannelOnly(in_channel, has_keyword) == in_channel

\* the message is processed: it is in the configured channel and its content
\* contains the configured keyword
ListenerGate(in_channel, has_keyword) == in_channel /\ has_keyword

\* on_message runs to its first catalog call or returns; vids: the
\* identifiers extracted from the content; calls: the catalog calls issued
ListenerEntry(in_channel, has_keyword, vids) ==
    LET c == [fn |-> "on_message", status |-> "ignored",
              in_channel |-> in_channel, has_keyword |-> has_keyword,
              vids |-> vids, idx |-> 0, func |-> "none", calls |-> {}]
    IN  IF ListenerGate(in_channel, has_keyword) /\ vids # <<>>
        THEN [c EXCEPT !.status = "processing", !.idx = 1, !.func = "video_exists",
                       !.calls = {<<1, "video_exists">>}]
        ELSE c

\* the listener goes on to the catalog call func for the idx-th identifier,
\* or returns after the last one
ListenerGoto(c, idx, func) ==
    IF idx > Len(c.vids) THEN [c EXCEPT !.status = "finished", !.func = "none"]
    ELSE [c EXCEPT !.idx = idx, !.func = func, !.calls = @ \cup {<<idx, func>>}]

\* the catalog call in progress ended with outcome o: membership, then
\* metadata, then insert for each identifier in turn; a credential expiry
\* ends the processing, any other error only that of the identifier
ListenerStep(c, o) ==
    IF o.exc = "CredentialsExpiredError"
    THEN [c EXCEPT !.status = "finished", !.func = "none"]
    ELSE IF o.exc # "None" THEN ListenerGoto(c, c.idx + 1, "video_exists")
    ELSE CASE c.func = "video_exists" ->
                 IF o.value = 1 THEN ListenerGoto(c, c.idx + 1, "video_exists")
                 ELSE ListenerGoto(c, c.idx, "get_video_metadata")
           [] c.func = "get_video_metadata" ->
                 IF o.value > MAX_VIDEO_DURATION_SECONDS
                 THEN ListenerGoto(c, c.idx + 1, "video_exists")
                 ELSE ListenerGoto(c, c.idx, "add_to_playlist")
           [] OTHER -> ListenerGoto(c, c.idx + 1, "video_exists")

\* one listener invocation is observed
ListenerCaller == CHOOSE t \in Tasks : \A o \in Tasks : t <= o

\* a message is posted and on_message is called with it
ListenerMessage ==
    /\ unit[ListenerCaller].status = "idle"
    /\ \E in_channel \in BOOLEAN, has_keyword \in BOOLEAN, vids \in Batches :
          unit' = [unit EXCEPT ![ListenerCaller] =
                      ListenerEntry(in_channel, has_keyword, vids)]
    /\ UNCHANGED <<now, _user_cooldowns, playlist, task, retry, funcLog, trackerVars>>

\* the catalog call the listener awaits ends
ListenerCall ==
    /\ unit[ListenerCaller].status = "processing"
    /\ LET c == unit[ListenerCaller]
           vid == c.vids[c.idx]
       IN  \E o \in FuncOutcomes(c.func, vid, playlist, TRUE) :
              /\ unit' = [unit EXCEPT ![ListenerCaller] = ListenerStep(c, o)]
              /\ playlist' = IF c.func = "add_to_playlist" /\ o.exc = "None"
                             THEN Append(playlist, vid) ELSE playlist
    /\ UNCHANGED <<now, _user_cooldowns, task, retry, funcLog, trackerVars>>

NextListener == ListenerMessage \/ ListenerCall

SpecListener == InitSingle /\ [][NextListener]_vars

(***************************************************************************)
(* C34.  The listener processes a message only when it is posted in the    *)
(* configured channel and contains the configured keyword: for a message   *)
(* in another channel or without the keyword no membership, metadata or    *)
(* insert call is issued (and the playlist stays as it was).               *)
(***************************************************************************)

C34_State ==
    LET c == unit[ListenerCaller]
    IN  (c.fn = "on_message" /\ ~(c.in_channel /\ c.has_keyword))
        => c.calls = {} /\ c.status = "ignored"

C34_Step ==
    LET c == unit[ListenerCaller]
    IN  (c.fn = "on_message" /\ ~(c.in_channel /\ c.has_keyword))
        => playlist' = playlist

C34_OnlyGatedMessagesProcessed == []C34_State /\ [][C34_Step]_vars

C34_Witness ==
    LET c == unit[ListenerCaller]
    IN  /\ c.fn = "on_message"
        /\ c.in_channel /\ ~c.has_keyword
        /\ Len(c.vids) = 2
        /\ c.status = "ignored"
----------------------------------------------------------------------------
(***************************************************************************)
(* C35.  Original statement: for every interleaving of two concurrent      *)
(* batches that both contain an identifier initially absent from the       *)
(* playlist, the identifier is inserted at most once.                      *)
(***************************************************************************)

Count(seq, v) == Cardinality({i \in 1..Len(seq) : seq[i] = v})

InitiallyPresent == UNION {Range(pl) : pl \in Playlists}

C35_InsertedAtMostOnce ==
    \A v \in VideoIds \ InitiallyPresent : Count(playlist, v) <= 1

(***************************************************************************)
(* C35, amended.  Each batch inserts an identifier at most once, and only  *)
(* an identifier that was not in the playlist before the batches began:    *)
(* every insert is made by a batch for a position it has not inserted      *)
(* before, so an identifier initially absent is inserted at most once per  *)
(* batch, and one initially present is never inserted.                     *)
(***************************************************************************)

C35_State ==
    /\ \A v \in VideoIds \ InitiallyPresent : Count(playlist, v) <= NumTasks
    /\ \A v \in InitiallyPresent :
          \A pl \in Playlists : Count(playlist, v) = Count(pl, v)

C35_Step ==
    playlist' # playlist
    => \E t \in Tasks :
          LET rec == task[t] IN
          /\ rec.pc = "call" /\ rec.func = "add_to_playlist"
          /\ playlist' = Append(playlist, rec.vids[rec.idx])
          /\ rec.idx \notin rec.inserted
          /\ rec.vids[rec.idx] \notin Range(rec.added)
          /\ <<rec.idx, "video_exists">> \in rec.calls

C35_AtMostOncePerBatch == []C35_State /\ [][C35_Step]_vars

\* both batches inserted the identifier
C35_Witness ==
    /\ Count(playlist, "b") = 2
    /\ \A t \in Tasks : task[t].pc = "announce" /\ task[t].vids[task[t].idx] = "b"
----------------------------------------------------------------------------
(* One invocation under a fair scheduler: every collaborator call the      *)
(* handler awaits eventually returns or raises, and the event loop then    *)
(* resumes the handler.                                                    *)

\* the steps of an invocation after the command was invoked
Progress(t) ==
    \/ Respond(t, TRUE)
    \/ Defer(t, TRUE)
    \/ CatalogAttempt(t, TRUE)
    \/ Resume(t)
    \/ Announce(t, TRUE)
    \/ Reply(t, TRUE)
    \/ Return(t)

SpecSingleFair == SpecSingle /\ \A t \in Tasks : WF_vars(Progress(t))

(***************************************************************************)
(* C36.  Every command invocation eventually finishes, provided each       *)
(* collaborator call eventually returns or raises; a batch of n            *)
(* identifiers issues at most 3 x 14 x n attempts: it starts at most one   *)
(* retry execution for each of the three catalog functions and each        *)
(* identifier, and an execution makes at most 14 attempts, one at a time.  *)
(***************************************************************************)

C36_State ==
    \A t \in Tasks :
       /\ retry[t].attempt <= Len(_RETRY_WAIT_SECONDS)
       /\ Len(funcLog[t]) = retry[t].attempt
       /\ task[t].calls \subseteq (1..Len(task[t].vids)) \X CatalogFunctions
       /\ Cardinality(task[t].calls)
             <= Cardinality(CatalogFunctions) * Len(task[t].vids)

C36_Step ==
    \A t \in Tasks :
       retry'[t] # retry[t]
       => \/ retry'[t] = RetryIdle
          \* a retry execution starts: for a pair the batch has not called yet
          \/ /\ retry'[t] = RetryEntry(task'[t].func)
             /\ task'[t].pc = "call"
             /\ <<task'[t].idx, task'[t].func>> \notin task[t].calls
             /\ task'[t].calls = task[t].calls \cup {<<task'[t].idx, task'[t].func>>}
          \* the execution in progress makes one attempt
          \/ /\ retry[t].status = "running"
             /\ retry'[t].attempt = retry[t].attempt + 1
             /\ task'[t] = task[t]

C36_Finishes ==
    \A t \in Tasks : (task[t].pc # "idle") ~> (task[t].pc = "returned")

C36_TerminatesWithinAttemptBudget ==
    /\ []C36_State
    /\ [][C36_Step]_vars
    /\ C36_Finishes

\* a batch of two identifiers in which an execution used all its attempts
C36_Witness ==
    \E t \in Tasks :
       /\ Len(task[t].vids) = 2
       /\ task[t].idx = 2
       /\ task[t].func = "add_to_playlist"
       /\ retry[t].status = "raised"
       /\ retry[t].attempt = Len(_RETRY_WAIT_SECONDS)
       /\ Cardinality(task[t].calls) = 2 * Cardinality(CatalogFunctions)
----------------------------------------------------------------------------
(* The two retry executors side by side: bot/retry.py call_with_retry and  *)
(* bot/main.py _call_with_retry wrapping the same operation, whose k-th    *)
(* call has the same outcome for both.                                     *)

\* retry.py lines 12-17: the same delays as in main.py
RETRY_WAIT_SECONDS ==
    <<0>> \o [i \in 1.._FAST_RETRY_ATTEMPTS |-> _FAST_RETRY_DELAY_SECONDS]
          \o _SLOW_RETRY_DELAYS

\* retry.py lines 18-21
RetryModuleNonRetryable ==
    {"CredentialsExpiredError", "MissingGoogleDependenciesError"}

\* one iteration of the loop of retry.py lines 36-61, and lines 63-64
call_with_retry(r, o) ==
    LET attempt == r.attempt + 1
        wait == RETRY_WAIT_SECONDS[attempt]
        slept == IF attempt > 1 /\ wait # 0 THEN Append(r.sleeps, wait) ELSE r.sleeps
        exc == [type |-> o.exc, at |-> attempt]
    IN  IF o.exc = "None"
        THEN [r EXCEPT !.attempt = attempt, !.sleeps = slept,
                       !.status = "returned", !.value = o.value]
        ELSE IF o.exc \in RetryModuleNonRetryable
        THEN [r EXCEPT !.attempt = attempt, !.sleeps = slept,
                       !.status = "raised", !.raised = exc]
        ELSE IF attempt = Len(RETRY_WAIT_SECONDS)
             THEN [r EXCEPT !.attempt = attempt, !.sleeps = slept, !.last_exc = exc,
                            !.status = "raised", !.raised = exc]
             ELSE [r EXCEPT !.attempt = attempt, !.sleeps = slept, !.last_exc = exc]

\* what a call of the wrapped operation can do
PairOutcomes == OperationOutcomes \cup {Raises("MissingGoogleDependenciesError")}

PairCaller == CHOOSE t \in Tasks : \A o \in Tasks : t <= o

\* both executors are entered with the same operation: retry holds the
\* locals of main._call_with_retry, unit those of retry.call_with_retry
PairBegin ==
    /\ retry[PairCaller].status = "idle"
    /\ retry' = [retry EXCEPT ![PairCaller] = RetryEntry("operation")]
    /\ unit' = [unit EXCEPT ![PairCaller] = RetryEntry("operation")]
    /\ UNCHANGED <<funcLog, handlerVars, trackerVars>>

\* the next call of the operation has outcome o, for each executor that has
\* not ended before it
PairAttempt ==
    /\ retry[PairCaller].status = "running" \/ unit[PairCaller].status = "running"
    /\ Len(funcLog[PairCaller]) < Len(_RETRY_WAIT_SECONDS)
    /\ \E o \in PairOutcomes :
          /\ retry' = [retry EXCEPT ![PairCaller] =
                          IF @.status = "running" THEN _call_with_retry(@, o) ELSE @]
          /\ unit' = [unit EXCEPT ![PairCaller] =
                         IF @.status = "running" THEN call_with_retry(@, o) ELSE @]
          /\ funcLog' = [funcLog EXCEPT ![PairCaller] = Append(@, o)]
    /\ UNCHANGED <<handlerVars, trackerVars>>

NextPair == PairBegin \/ PairAttempt

SpecPair == InitRetry /\ [][NextPair]_vars

(***************************************************************************)
(* C37.  retry.call_with_retry and main._call_with_retry are equivalent:   *)
(* for every sequence of outcomes of the wrapped operation (success,       *)
(* retryable error, CredentialsExpiredError,                               *)
(* MissingGoogleDependenciesError) they make the same number of attempts,  *)
(* perform the same waits and end with the same result or error.           *)
(***************************************************************************)

C37_ExecutorsEquivalent ==
    retry[PairCaller].status # "idle" => unit[PairCaller] = retry[PairCaller]
----------------------------------------------------------------------------
(***************************************************************************)
(* C38.  A metadata lookup that fails because the catalog has no item for  *)
(* the identifier is handled like a transient failure: get_video_metadata  *)
(* raises RuntimeError, the executor attempts it all 14 times with the     *)
(* complete wait sequence (1010 seconds in total), only then the           *)
(* identifier is recorded as Failed, and no later identifier of the batch  *)
(* is processed until then.                                                *)
(***************************************************************************)

\* how one call of get_video_metadata(vid) ends when videos().list answers
\* without an item for vid
NotFoundOutcome(vid, d) ==
    LET c == CatalogStep(CatalogEntry("get_video_metadata", vid, FALSE),
                         playlist, Response(d))
    IN  IF c.last.exc = "None" THEN Returns(c.last.value) ELSE Raises(c.last.exc)

RECURSIVE SumOf(_)
SumOf(seq) == IF seq = <<>> THEN 0 ELSE Head(seq) + SumOf(Tail(seq))

\* invocation t waits for get_video_metadata and every attempt so far ended
\* as the lookup of a video that is not found ends
NotFoundLookup(t) ==
    /\ task[t].pc = "call"
    /\ task[t].func = "get_video_metadata"
    /\ funcLog[t] # <<>>
    /\ \A k \in 1..Len(funcLog[t]) :
          \A d \in Durations :
             funcLog[t][k] = NotFoundOutcome(task[t].vids[task[t].idx], d)

ResultCount(rec) ==
    Len(rec.added) + Len(rec.duplicates) + Len(rec.too_long) + Len(rec.failures)

C38_State ==
    \A t \in Tasks :
       /\ \A vid \in VideoIds, d \in Durations :
             NotFoundOutcome(vid, d) = Raises("RuntimeError")
       /\ NotFoundLookup(t)
          => /\ retry[t].status \in {"running", "raised"}
             /\ retry[t].status = "running"
                   <=> retry[t].attempt < Len(_RETRY_WAIT_SECONDS)
             /\ retry[t].status = "raised"
                   => /\ retry[t].attempt = 14
                      /\ retry[t].sleeps = Tail(_RETRY_WAIT_SECONDS)
                      /\ SumOf(retry[t].sleeps) = 1010
                      /\ retry[t].raised.type = "RuntimeError"
             \* the identifier has no result yet, no later one was touched
             /\ ResultCount(task[t]) = task[t].idx - 1
             /\ \A call \in task[t].calls : call[1] <= task[t].idx

C38_Step ==
    \A t \in Tasks :
       NotFoundLookup(t) /\ task'[t] # task[t]
       => /\ retry[t].attempt = Len(_RETRY_WAIT_SECONDS)
          /\ task'[t].failures =
                Append(task[t].failures, <<task[t].vids[task[t].idx], "RuntimeError">>)
          /\ ResultCount(task'[t]) = task[t].idx
          /\ IF task[t].idx < Len(task[t].vids)
             THEN /\ task'[t].pc = "call"
                  /\ task'[t].idx = task[t].idx + 1
             ELSE task'[t].pc = "reply" /\ task'[t].pending = "summary"

C38_NotFoundRetriedInFull == []C38_State /\ [][C38_Step]_vars

\* the first identifier of a batch of two was not found 14 times
C38_Witness ==
    \E t \in Tasks :
       /\ NotFoundLookup(t)
       /\ Len(task[t].vids) = 2
       /\ task[t].idx = 1
       /\ retry[t].status = "raised"
       /\ Len(funcLog[t]) = 14

\* and the second identifier is processed after the first was recorded
C38_WitnessNext ==
    \E t \in Tasks :
       /\ task[t].pc = "call"
       /\ task[t].idx = 2
       /\ Len(task[t].failures) = 1
       /\ task[t].failures[1][2] = "RuntimeError"
       /\ task[t].too_long = <<>>
----------------------------------------------------------------------------
(* Callers that pass the `now` argument: remaining(user_id, now=...) and    *)
(* mark(user_id, now=...) use the value given instead of reading the clock. *)

\* the values of the now argument
NowArguments == 0..MaxTime

\* a caller enters remaining or mark with an explicit now: cooldown.py lines
\* 29 and 43, main.py lines 346 and 361
TrackerCallAt(t) ==
    /\ op[t].pc = "idle"
    /\ Cardinality(Calling) <= 1
    /\ \E kind \in {"remaining", "mark"}, user \in Users, current \in NowArguments :
          LET call == [IdleOp EXCEPT !.kind = kind, !.user = user, !.current = current]
          IN  IF ~enabled(cooldown)
              THEN /\ op' = [op EXCEPT ![t] =
                          [call EXCEPT
                              !.pc = "returned",
                              !.value = IF kind = "remaining"
                                        THEN TrackerRemaining(cooldown, user, current)
                                        ELSE 0]]
                   /\ cooldown' = IF kind = "mark"
                                  THEN TrackerMark(cooldown, user, current)
                                  ELSE cooldown
              ELSE IF cooldown.lock = 0
              THEN /\ op' = [op EXCEPT ![t] = [call EXCEPT !.pc = "locked"]]
                   /\ cooldown' = [cooldown EXCEPT !.lock = t]
              ELSE /\ op' = [op EXCEPT ![t] = [call EXCEPT !.pc = "waiting"]]
                   /\ cooldown' = cooldown
    /\ UNCHANGED <<now, _user_cooldowns, playlist, task, retry, funcLog, unit>>

\* one caller makes the calls, one after the other
TrackerAtCaller == CHOOSE t \in Tasks : \A o \in Tasks : t <= o

NextTrackerAt ==
    \/ TrackerCallAt(TrackerAtCaller)
    \/ TrackerBody(TrackerAtCaller)
    \/ TrackerReturn(TrackerAtCaller)

SpecTrackerAt == InitTracker /\ [][NextTrackerAt]_vars

(***************************************************************************)
(* C39.  For every user, every sequence of mark and remaining calls and    *)
(* every value of the now argument, the value returned by remaining lies   *)
(* between 0 and the configured window inclusive.                          *)
(***************************************************************************)

C39_RemainingWithinWindow ==
    \A t \in Tasks :
       op[t].pc = "returned" /\ op[t].kind = "remaining"
       => 0 <= op[t].value /\ op[t].value <= cooldown.seconds

\* the same, for the calls whose now is not before the timestamp they read
C39_WithinWindowFromMarkOn ==
    \A t \in Tasks :
       /\ op[t].pc = "returned"
       /\ op[t].kind = "remaining"
       /\ op[t].current >= op[t].last
       => 0 <= op[t].value /\ op[t].value <= cooldown.seconds
----------------------------------------------------------------------------
(***************************************************************************)
(* C40.  canonical_video_ids_from_text returns an identifier only from a   *)
(* link whose host is youtu.be, youtube.com or a subdomain of one of them; *)
(* a link to any other host (for example a host that merely ends with the  *)
(* letters youtube.com) contributes no identifier.                         *)
(***************************************************************************)

\* the host a link names: what precedes the first slash
LinkHost(link) ==
    LET chars == ShapeChars(link.shape)
    IN  SubSeq(chars, 1, find(chars, 1, {"/"}) - 1)

\* youtu.be, youtube.com or a subdomain of one of them
IsYouTubeHost(host) ==
    \E domain \in {YOUTUBE_COM, YOUTU_BE} :
       host = domain \/ endswith(host, <<".">> \o domain)

C40_OnlyYouTubeHosts ==
    LET c == unit[ExtractCaller]
    IN  c.status = "returned"
        => \A k \in 1..Len(c.out) :
              \E j \in 1..Len(c.links) :
                 /\ IsYouTubeHost(LinkHost(c.links[j]))
                 /\ startswith(IdChars(c.links[j].id), 1, SubSeq(c.out[k], 1, IdLength))

\* the same without the links to a host that ends with the letters
C40_WithoutLookalikes ==
    LET c == unit[ExtractCaller]
    IN  (/\ c.status = "returned"
         /\ \A j \in 1..Len(c.links) : c.links[j].shape # "lookalike")
        => C40_OnlyYouTubeHosts

====
